---- MODULE Spec2Model ----
(***************************************************************************)
(* Request throttling and cache coordination of the landing-zone portal    *)
(* backend:                                                                *)
(*   - backend/middleware/distributed_rate_limit.py  (token bucket)        *)
(*   - backend/services/cache_distributed.py         (lock + tiered cache) *)
(*   - backend/middleware/rate_limit_distributed.py  (sliding window)      *)
(*   - backend/services/cache.py                     (circuit breaker)     *)
(*                                                                         *)
(* The specifications of this module, one per subsystem:                   *)
(*   SpecRateLimit   concurrent is_allowed calls against one bucket key    *)
(*   SpecCache       concurrent CacheService.get calls on one cache key    *)
(*   SpecInvalidate  CacheService.invalidate over a small key universe     *)
(*   SpecSequence    is_allowed calls made one after another on one key     *)
(*   SpecDynamicLimit get_dynamic_limit calls and the health check          *)
(*   SpecTtl         the expiry get and set store a value with             *)
(*   SpecForm        the return forms of is_allowed                         *)
(*   SpecWindow      concurrent check_limit calls on one sorted set         *)
(*   SpecBreaker     concurrent CircuitBreaker.call invocations             *)
(* The actions of each leave the variables of the others untouched.        *)
(***************************************************************************)
EXTENDS Integers, Sequences, FiniteSets, TLC

VARIABLES
    \* ---- rate limiter (distributed_rate_limit.py) ----
    clock,        \* wall clock, whole seconds
    bucket,       \* the shared store: bucket key -> absent or BucketState
    rl_pc,        \* position of each is_allowed call
    rl_args,      \* arguments/locals of the call in flight
    rl_ret,       \* what the call returned
    rl_calls,     \* store round trips made by the call in flight
    rl_store,     \* how that round trip ended: "ok", "error", "malformed"
    written_cap,  \* capacity argument of the script run that last wrote a key
    run,          \* script runs on the key so far, while all use one policy
    started,      \* is_allowed calls started so far
    \* ---- tiered cache and lock (cache_distributed.py) ----
    decode_responses, \* whether the store client decodes replies to text
    cache_val,    \* the shared store: JSON text under the cache key, or Nil
    lock,         \* the shared store: the record under lock:<key>
    request_cache,\* per instance: the value under the cache key, or Missing
    c_pc,         \* position of each get call
    c_attempt,    \* loop counter of the acquisition / of the wait-and-read
    c_token,      \* lock_value of the caller's CacheLock
    c_reply,      \* reply of the last store read, not yet acted on
    c_out,        \* outcome pending while __aexit__ runs, then the outcome
    c_path,       \* the return statement the call left by
    c_fetches,    \* fetch_fn invocations of the call
    c_ops,        \* store round trips of the call: 0, 1, or 2 for more
    c_sleep,      \* the delay __aenter__ slept after its latest attempt
    lost,         \* holder's record left the store: "no", "early", "late"
    faults,       \* round trips failed, fetches failed and calls cancelled
    \* ---- the two tiers over several keys (CacheService.invalidate) ----
    redis,        \* whether connect() has given the service a store client
    key_cache,    \* request_cache of the service: key -> value or Missing
    key_store,    \* the shared store: key -> JSON text or Nil
    \* ---- is_allowed calls in sequence on one key ----
    s_policy,     \* the limits the caller passes
    s_clock,      \* wall clock, whole seconds
    s_value,      \* the shared store: the value under the bucket key
    s_ret,        \* what the last call returned
    s_error,      \* whether the last call's round trip raised RedisError
    s_count,      \* calls made so far
    s_log,        \* summary of the calls made so far
    \* ---- get_dynamic_limit and the health check ----
    endpoint_limits,   \* RateLimitConfig.ENDPOINT_LIMITS of the deployment
    dl_clock,          \* time.time(), whole seconds
    health_status,     \* self._health_status
    last_health_check, \* self._last_health_check
    dl_args,           \* arguments of the last get_dynamic_limit call
    dl_base,           \* base_limit of the last call
    dl_status,         \* the health status the last call scaled by
    dl_sampled,        \* whether the last call sampled the load signal
    dl_sample,         \* what that sampling gave
    dl_sample_at,      \* clock reading of the latest sampling (0: none yet)
    dl_ret,            \* what the last call returned
    \* ---- TTL of stored values (cache_distributed.py) ----
    ttl_store, \* the TTL each key was last stored with
    ttl_last,\* the last storing call: get or set, its key and ttl argument
    \* ---- calling forms of is_allowed (distributed_rate_limit.py) ----
    f_call, \* the last is_allowed call: its max_or_tier, the health status and the store's reply
    f_ret,\* what that call returned
    \* ---- sliding-window limiter (rate_limit_distributed.py) ----
    w_limit, \* limit argument of the calls
    w_window, \* window argument of the calls, seconds
    w_clock, \* time.time(), whole seconds
    zset, \* the sorted set under the key: the scores of its members
    w_expire_at, \* clock reading at which the key expires (0: no expiry set)
    w_pc, \* position of each check_limit call
    w_now, \* now of the call in flight
    w_started, \* check_limit calls started so far
    granted,\* calls that returned True, by their now
    \* ---- circuit breaker (services/cache.py) ----
    cb_clock, \* time.time()
    failures, \* self.failures
    last_failure_time, \* self.last_failure_time
    is_open, \* self.is_open
    cb_pc, \* where each caller of call() stands
    cb_out, \* outcome of each caller's last call()
    cb_n, \* call() invocations begun by each caller
    streak \* failures counted since the last success

rl_vars == <<clock, bucket, rl_pc, rl_args, rl_ret, rl_calls, rl_store,
             written_cap, run, started>>

cache_vars == <<decode_responses, cache_val, lock, request_cache, c_pc, c_attempt,
                c_token, c_reply, c_out, c_path, c_fetches, c_ops, c_sleep, lost,
                faults>>

inv_vars == <<redis, key_cache, key_store>>

seq_vars == <<s_policy, s_clock, s_value, s_ret, s_error, s_count, s_log>>

dl_vars == <<endpoint_limits, dl_clock, health_status, last_health_check, dl_args,
             dl_base, dl_status, dl_sampled, dl_sample, dl_sample_at, dl_ret>>

ttl_vars == <<ttl_store, ttl_last>>

form_vars == <<f_call, f_ret>>

win_vars == <<w_limit, w_window, w_clock, zset, w_expire_at, w_pc, w_now, w_started, granted>>

cb_vars == <<cb_clock, failures, last_failure_time, is_open, cb_pc, cb_out, cb_n, streak>>

vars == <<rl_vars, cache_vars, inv_vars, seq_vars, dl_vars,
         ttl_vars,
         form_vars,
         win_vars,
         cb_vars>>

(* What the actions of one subsystem leave alone. *)
other_than_rl == <<cache_vars, inv_vars, seq_vars, dl_vars,
    ttl_vars,
    form_vars,
    win_vars,
    cb_vars>>
other_than_cache == <<rl_vars, inv_vars, seq_vars, dl_vars,
    ttl_vars,
    form_vars,
    win_vars,
    cb_vars>>
other_than_inv == <<rl_vars, cache_vars, seq_vars, dl_vars,
    ttl_vars,
    form_vars,
    win_vars,
    cb_vars>>
other_than_seq == <<rl_vars, cache_vars, inv_vars, dl_vars,
    ttl_vars,
    form_vars,
    win_vars,
    cb_vars>>
other_than_dl == <<rl_vars, cache_vars, inv_vars, seq_vars,
    ttl_vars,
    form_vars,
    win_vars,
    cb_vars>>
other_than_ttl == <<rl_vars, cache_vars, inv_vars, seq_vars, dl_vars,
    form_vars,
    win_vars,
    cb_vars>>
other_than_form == <<rl_vars, cache_vars, inv_vars, seq_vars, dl_vars, ttl_vars,
    win_vars,
    cb_vars>>
other_than_win == <<rl_vars, cache_vars, inv_vars, seq_vars, dl_vars, ttl_vars, form_vars,
    cb_vars>>
other_than_cb == <<rl_vars, cache_vars, inv_vars, seq_vars, dl_vars, ttl_vars, form_vars, win_vars>>

----------------------------------------------------------------------------
(* Bounds of the model. *)

MaxCalls == 4            \* is_allowed calls started in one behaviour
MaxTicks == 2            \* clock advances in one behaviour

(* Concurrent is_allowed callers, on any instances. *)
LimiterCallers == {"a", "b", "c"}

(* The clock advances between steps by this many seconds: window/capacity  *)
(* of the first policy below.                                               *)
TickSteps == {30}

(* Client identities and the policies the callers pass as numeric limits. *)
ClientIds == {"u1"}
Policies == { [requests |-> 2, window |-> 60], [requests |-> 10, window |-> 10] }

(* Tokens are fractions; the model keeps them exactly, as multiples of     *)
(* 1/TokenDen.  TokenDen is the least number every window divides, so that  *)
(* requests/window tokens per second is a whole number of units.            *)
TokenDen == CHOOSE d \in 1..3600 :
              /\ \A p \in Policies : d % p.window = 0
              /\ \A e \in 1..(d - 1) : \E p \in Policies : e % p.window # 0

Min(a, b) == IF a <= b THEN a ELSE b

----------------------------------------------------------------------------
(* The shared store as the rate limiter sees it. *)

(* key = f"rate_limit:{client_id}" *)
RateKey(client_id) == <<"rate_limit", client_id>>
BucketKeys == { RateKey(c) : c \in ClientIds }

(* What GET returns for a key never written (nil). *)
Absent == [present |-> FALSE, tokens |-> 0, last_refill |-> 0]

(* Faulty variant: integer division, max_requests // window_seconds. *)
RefillRate_FloorDiv(max_requests, window_seconds) ==
    (max_requests \div window_seconds) * TokenDen

(* refill_rate = max_requests / window_seconds, in token units per second. *)
RefillRate(max_requests, window_seconds) ==
    (max_requests * TokenDen) \div window_seconds

(* Values a store reply is made of, and the replies themselves.  An item is *)
(* an integer, nil, or a piece of text that is no number.                   *)
IntItem(n) == [t |-> "int", v |-> n]
NoneItem == [t |-> "none", v |-> 0]
TextItem == [t |-> "text", v |-> 0]
ListReply(items) == [kind |-> "list", items |-> items, v |-> 0]
IntReply(n) == [kind |-> "int", items |-> << >>, v |-> n]
NoneReply == [kind |-> "none", items |-> << >>, v |-> 0]
DictReply == [kind |-> "dict", items |-> << >>, v |-> 0]

(* Faulty variant of the script: the token is not taken on allow. *)
LUA_SCRIPT_NoConsume(current, max_tokens, refill_rate, now) ==
    LET full == max_tokens * TokenDen
        state == IF ~current.present
                 THEN [present |-> TRUE, tokens |-> full, last_refill |-> now]
                 ELSE [present |-> TRUE,
                       tokens |-> Min(full, current.tokens
                                   + (now - current.last_refill) * refill_rate),
                       last_refill |-> now]
    IN IF state.tokens >= TokenDen
       THEN [state |-> state,
             reply |-> ListReply(<<IntItem(1), IntItem(state.tokens \div TokenDen)>>)]
       ELSE [state |-> state, reply |-> ListReply(<<IntItem(0), IntItem(0)>>)]

(* Faulty variant of the script: elapsed time adds no tokens. *)
LUA_SCRIPT_NoRefill(current, max_tokens, refill_rate, now) ==
    LET full == max_tokens * TokenDen
        state == IF ~current.present
                 THEN [present |-> TRUE, tokens |-> full, last_refill |-> now]
                 ELSE [present |-> TRUE, tokens |-> Min(full, current.tokens),
                       last_refill |-> now]
    IN IF state.tokens >= TokenDen
       THEN [state |-> [state EXCEPT !.tokens = @ - TokenDen],
             reply |-> ListReply(<<IntItem(1),
                                   IntItem((state.tokens - TokenDen) \div TokenDen)>>)]
       ELSE [state |-> state, reply |-> ListReply(<<IntItem(0), IntItem(0)>>)]

(* The token-bucket script the store runs in one indivisible step: the new  *)
(* value of the key and the reply {allowed, remaining}.                     *)
LUA_SCRIPT(current, max_tokens, refill_rate, now) ==
    LET full == max_tokens * TokenDen
        state == IF ~current.present
                 THEN [present |-> TRUE, tokens |-> full, last_refill |-> now]
                 ELSE LET seconds_elapsed == now - current.last_refill
                          tokens_to_add == seconds_elapsed * refill_rate
                      IN [present |-> TRUE,
                          tokens |-> Min(full, current.tokens + tokens_to_add),
                          last_refill |-> now]
    IN IF state.tokens >= TokenDen
       THEN [state |-> [state EXCEPT !.tokens = @ - TokenDen],
             reply |-> ListReply(<<IntItem(1),
                                   IntItem((state.tokens - TokenDen) \div TokenDen)>>)]
       ELSE [state |-> state, reply |-> ListReply(<<IntItem(0), IntItem(0)>>)]

----------------------------------------------------------------------------
(* is_allowed, numeric form: is_allowed(client_id, max_requests, window).   *)

(* int(x) succeeds on an integer item only; bool(x) is Python truthiness.   *)
IntOk(item) == item.t = "int"
PyBool(item) == CASE item.t = "int" -> item.v # 0
                  [] item.t = "none" -> FALSE
                  [] OTHER -> TRUE

(* return True, {"remaining": max_requests, "limit": max_requests, ...} *)
FailOpen(max_requests) ==
    [allowed |-> TRUE, remaining |-> max_requests, limit |-> max_requests]

(* The reply of the store turned into (is_allowed, metadata). *)
Normalize(result, max_requests) ==
    IF result.kind = "list" /\ Len(result.items) >= 2
    THEN LET a == result.items[1]
             b == result.items[2]
             is_allowed == PyBool(a)
             remaining == IF IntOk(b) THEN b.v
                          ELSE IF is_allowed THEN max_requests - 1 ELSE 0
         IN [allowed |-> is_allowed, remaining |-> remaining,
             limit |-> max_requests]
    ELSE IF result.kind = "int"
    THEN [allowed |-> result.v # 0,
          remaining |-> IF result.v # 0 THEN max_requests - 1 ELSE 0,
          limit |-> max_requests]
    ELSE FailOpen(max_requests)

NoArgs == [client_id |-> "", max_requests |-> 0, window_seconds |-> 0,
           refill_rate |-> 0, now |-> 0]
NoRet == [allowed |-> FALSE, remaining |-> 0, limit |-> 0]

(* Replies that are not the {allowed, remaining} pair of integers the       *)
(* script returns.                                                          *)
MalformedReplies ==
    { NoneReply, DictReply, ListReply(<<IntItem(1)>>),
      ListReply(<<NoneItem, NoneItem>>), ListReply(<<TextItem, NoneItem>>),
      ListReply(<<IntItem(1), NoneItem>>) }

(* The record of script runs: the policy of the first run on the fresh key  *)
(* and, for as long as every run uses that policy, each run's clock reading *)
(* and decision in the order the store executed them.                       *)
NoRun == [requests |-> 0, window |-> 0, calls |-> << >>, pure |-> TRUE]
Record(r, a, allowed) ==
    IF r.requests = 0
    THEN [requests |-> a.max_requests, window |-> a.window_seconds,
          calls |-> <<[now |-> a.now, allowed |-> allowed]>>, pure |-> TRUE]
    ELSE IF r.pure /\ r.requests = a.max_requests /\ r.window = a.window_seconds
    THEN [r EXCEPT !.calls = Append(@, [now |-> a.now, allowed |-> allowed])]
    ELSE [r EXCEPT !.calls = << >>, !.pure = FALSE]

InitRateLimit ==
    /\ clock = 0
    /\ bucket = [k \in BucketKeys |-> Absent]
    /\ rl_pc = [p \in LimiterCallers |-> "idle"]
    /\ rl_args = [p \in LimiterCallers |-> NoArgs]
    /\ rl_ret = [p \in LimiterCallers |-> NoRet]
    /\ rl_calls = [p \in LimiterCallers |-> 0]
    /\ rl_store = [p \in LimiterCallers |-> "none"]
    /\ written_cap = [k \in BucketKeys |-> 0]
    /\ run = NoRun
    /\ started = 0

(* Time passes. *)
Tick(d) ==
    /\ clock + d <= MaxTicks * d
    /\ clock' = clock + d
    /\ UNCHANGED <<bucket, rl_pc, rl_args, rl_ret, rl_calls, rl_store,
                   written_cap, run, started>>
    /\ UNCHANGED other_than_rl

(* is_allowed up to the await of the store call: limits, key, refill rate   *)
(* and the caller's own clock reading.                                      *)
Start(p, c, pol) ==
    /\ rl_pc[p] = "idle"
    /\ started < MaxCalls
    /\ started' = started + 1
    /\ rl_args' = [rl_args EXCEPT ![p] =
                     [client_id |-> c, max_requests |-> pol.requests,
                      window_seconds |-> pol.window,
                      refill_rate |-> RefillRate(pol.requests, pol.window),
                      now |-> clock]]
    /\ rl_calls' = [rl_calls EXCEPT ![p] = 0]
    /\ rl_store' = [rl_store EXCEPT ![p] = "none"]
    /\ rl_ret' = [rl_ret EXCEPT ![p] = NoRet]
    /\ rl_pc' = [rl_pc EXCEPT ![p] = "await_store"]
    /\ UNCHANGED <<clock, bucket, written_cap, run>>
    /\ UNCHANGED other_than_rl

(* The store runs the script for the call (evalsha / eval), and the call    *)
(* normalises the reply and returns.                                        *)
EvalScript(p) ==
    /\ rl_pc[p] = "await_store"
    /\ LET a == rl_args[p]
           key == RateKey(a.client_id)
           out == LUA_SCRIPT(bucket[key], a.max_requests, a.refill_rate, a.now)
           ret == Normalize(out.reply, a.max_requests)
       IN /\ bucket' = [bucket EXCEPT ![key] = out.state]
          /\ rl_ret' = [rl_ret EXCEPT ![p] = ret]
          /\ written_cap' = [written_cap EXCEPT ![key] = a.max_requests]
          /\ run' = Record(run, a, ret.allowed)
    /\ rl_calls' = [rl_calls EXCEPT ![p] = @ + 1]
    /\ rl_store' = [rl_store EXCEPT ![p] = "ok"]
    /\ rl_pc' = [rl_pc EXCEPT ![p] = "returned"]
    /\ rl_args' = [rl_args EXCEPT ![p] = NoArgs]
    /\ UNCHANGED <<clock, started>>
    /\ UNCHANGED other_than_rl

(* The round trip raises RedisError (store unreachable, timeout, script     *)
(* error): the except clause allows the request.                            *)
EvalRedisError(p) ==
    /\ rl_pc[p] = "await_store"
    /\ rl_ret' = [rl_ret EXCEPT ![p] = FailOpen(rl_args[p].max_requests)]
    /\ rl_calls' = [rl_calls EXCEPT ![p] = @ + 1]
    /\ rl_store' = [rl_store EXCEPT ![p] = "error"]
    /\ rl_pc' = [rl_pc EXCEPT ![p] = "returned"]
    /\ rl_args' = [rl_args EXCEPT ![p] = NoArgs]
    /\ UNCHANGED <<clock, bucket, written_cap, run, started>>
    /\ UNCHANGED other_than_rl

(* The round trip completes with a reply of another shape. *)
EvalMalformed(p, r) ==
    /\ rl_pc[p] = "await_store"
    /\ rl_ret' = [rl_ret EXCEPT ![p] = Normalize(r, rl_args[p].max_requests)]
    /\ rl_calls' = [rl_calls EXCEPT ![p] = @ + 1]
    /\ rl_store' = [rl_store EXCEPT ![p] = "malformed"]
    /\ rl_pc' = [rl_pc EXCEPT ![p] = "returned"]
    /\ rl_args' = [rl_args EXCEPT ![p] = NoArgs]
    /\ UNCHANGED <<clock, bucket, written_cap, run, started>>
    /\ UNCHANGED other_than_rl

(* The caller takes the result; it may call again. *)
Return(p) ==
    /\ rl_pc[p] = "returned"
    /\ rl_pc' = [rl_pc EXCEPT ![p] = "idle"]
    /\ rl_ret' = [rl_ret EXCEPT ![p] = NoRet]
    /\ rl_calls' = [rl_calls EXCEPT ![p] = 0]
    /\ rl_store' = [rl_store EXCEPT ![p] = "none"]
    /\ UNCHANGED <<clock, bucket, rl_args, written_cap, run, started>>
    /\ UNCHANGED other_than_rl

NextRateLimit ==
    \/ \E d \in TickSteps : Tick(d)
    \/ \E p \in LimiterCallers, c \in ClientIds, pol \in Policies : Start(p, c, pol)
    \/ \E p \in LimiterCallers : EvalScript(p)
    \/ \E p \in LimiterCallers : EvalRedisError(p)
    \/ \E p \in LimiterCallers, r \in MalformedReplies : EvalMalformed(p, r)
    \/ \E p \in LimiterCallers : Return(p)


----------------------------------------------------------------------------
(* Properties of the rate limiter, checked under SpecRateLimit.             *)

TheKey == RateKey("u1")
Allowed(calls) == { i \in 1..Len(calls) : calls[i].allowed }
SameInstant(calls) == \A i \in 1..Len(calls) : calls[i].now = calls[1].now

(* C1: script runs on one key take effect one at a time.  When every call   *)
(* so far used capacity C and the same clock reading on a fresh key, the    *)
(* first C runs the store executed are allowed, every later one is denied   *)
(* (so at most C are allowed), and the stored tokens are what C minus the   *)
(* allowed calls leaves: the outcome of running the calls one after another.*)
C1_AtomicBucket ==
    (run.pure /\ run.requests > 0 /\ SameInstant(run.calls)) =>
        /\ Cardinality(Allowed(run.calls)) <= run.requests
        /\ \A i \in 1..Len(run.calls) : run.calls[i].allowed <=> i <= run.requests
        /\ bucket[TheKey].present
        /\ bucket[TheKey].tokens
             = (run.requests - Cardinality(Allowed(run.calls))) * TokenDen

(* Three calls with capacity 2 and one clock reading were in flight         *)
(* together, and the store allowed two of them and denied one.              *)
C1_Witness ==
    /\ run.pure /\ run.requests = 2 /\ Len(run.calls) = 3
    /\ SameInstant(run.calls)
    /\ \A p \in LimiterCallers : rl_pc[p] = "returned" /\ rl_store[p] = "ok"
    /\ Cardinality({ p \in LimiterCallers : rl_ret[p].allowed }) = 2

(* C2: the persisted tokens stay within 0 and the capacity of the call      *)
(* that wrote them.                                                         *)
C2_BucketBound ==
    \A k \in BucketKeys :
        bucket[k].present =>
            /\ 0 <= bucket[k].tokens
            /\ bucket[k].tokens <= written_cap[k] * TokenDen

(* C3: a call whose round trip failed or came back malformed returns        *)
(* allowed with remaining = capacity, after a single store call.            *)
C3_FailOpen ==
    \A p \in LimiterCallers :
        (rl_pc[p] = "returned" /\ rl_store[p] \in {"error", "malformed"}) =>
            /\ rl_ret[p].allowed
            /\ rl_ret[p].remaining = rl_ret[p].limit
            /\ rl_calls[p] = 1

(* C10: capacity 2, window 60: three calls at one clock reading on a fresh  *)
(* key get allow, allow, deny; a fourth call 30 s later is allowed.         *)
C10_DenyThenAllow ==
    (run.pure /\ run.requests = 2 /\ run.window = 60 /\ Len(run.calls) >= 3
       /\ run.calls[2].now = run.calls[1].now
       /\ run.calls[3].now = run.calls[1].now) =>
        /\ run.calls[1].allowed /\ run.calls[2].allowed /\ ~run.calls[3].allowed
        /\ (Len(run.calls) >= 4 /\ run.calls[4].now = run.calls[3].now + 30)
             => run.calls[4].allowed

C10_Witness ==
    /\ run.pure /\ run.requests = 2 /\ run.window = 60 /\ Len(run.calls) = 4
    /\ run.calls[2].now = run.calls[1].now
    /\ run.calls[3].now = run.calls[1].now
    /\ ~run.calls[3].allowed
    /\ run.calls[4].now = run.calls[3].now + 30
    /\ run.calls[4].allowed

----------------------------------------------------------------------------
(* The store and the callers of CacheService.get for one cache key.         *)

(* Callers of get and the service instance (process) each runs in.  An      *)
(* instance has one CacheService and so one request_cache.                  *)
NumCacheCallers == 2     \* concurrent callers of get on the key
CacheCallers == 1..NumCacheCallers
InstanceOf(p) == IF p <= 2 THEN 1 ELSE 2
Instances == { InstanceOf(p) : p \in CacheCallers }

(* Values fetch_fn returns (Python values) and the JSON texts of the store. *)
FetchValues == {"(1, 2)"}
Nil == "nil"
Missing == "missing"

(* json.dumps(value, default=str): a tuple is written as a JSON array. *)
JsonDumps(v) == IF v = "(1, 2)" THEN "json:[1, 2]" ELSE "json:null"
(* json.loads(text): a JSON array is read as a list. *)
JsonLoads(text) == IF text = "json:[1, 2]" THEN "[1, 2]" ELSE "None"

(* lock_value = str(datetime.utcnow().timestamp()): the clock reading at    *)
(* construction.  A new lock gets a reading of its own (numbered after its  *)
(* caller) or the reading another caller's lock was built at.  0: no lock.  *)
NoToken == 0
LockValues(p, tokens) ==
    {p} \cup { tokens[q] : q \in { r \in DOMAIN tokens : tokens[r] # NoToken } }

max_retries == 10
(* retry_delay, in tenths of a second, as every delay of the model. *)
retry_delay == 1

(* Faulty variant: the same delay after every failed attempt. *)
RetryDelay_Constant(attempt) == retry_delay

(* retry_delay * (2**attempt) *)
RetryDelay(attempt) == retry_delay * 2^attempt

(* CacheLock(self.redis, key): ttl = 10, in seconds. *)
LockTtl == 10
wait_reads == 10

(* Faulty variant: a value read from the store is never taken as a hit. *)
Truthy_Never(raw) == FALSE

(* "if value:" on the reply of GET: nil and the empty text are falsy. *)
Truthy(raw) == raw # Nil /\ raw # ""

(* The record under lock:<key>: its value, the caller that wrote it and    *)
(* the expiry it was written with (0: none).                                *)
NoLock == [held |-> FALSE, value |-> NoToken, by |-> 0, ttl |-> 0]

(* A reply of GET as the client hands it over: text when the client was     *)
(* created with decode_responses=True, bytes otherwise.                     *)
ClientReply(decode, raw) ==
    [kind |-> IF raw = Nil THEN "none" ELSE IF decode THEN "str" ELSE "bytes",
     text |-> raw]

(* The reply of GET lock:<key>. *)
LockReply(decode, record) ==
    [kind |-> IF ~record.held THEN "none" ELSE IF decode THEN "str" ELSE "bytes",
     text |-> record.value]

(* self.lock_value.encode() *)
Encode(text) == [kind |-> "bytes", text |-> text]

(* current_value == self.lock_value.encode() *)
StillOwner(current_value, lock_value) == current_value = Encode(lock_value)

(* Faulty variant: SET without nx overwrites a record that is present. *)
SetNX_Overwrite(record, value, by) ==
    [ok |-> TRUE,
     record |-> [held |-> TRUE, value |-> value, by |-> by, ttl |-> LockTtl]]

(* Faulty variant: SET NX without ex leaves the record with no expiry. *)
SetNX_NoExpiry(record, value, by) ==
    IF record.held
    THEN [ok |-> FALSE, record |-> record]
    ELSE [ok |-> TRUE,
          record |-> [held |-> TRUE, value |-> value, by |-> by, ttl |-> 0]]

(* redis.set(key, value, ex=ttl, nx=True): writes only when the key is      *)
(* absent, the value and its expiry in the one command, and says whether    *)
(* it wrote.                                                                *)
SetNX(record, value, by) ==
    IF record.held
    THEN [ok |-> FALSE, record |-> record]
    ELSE [ok |-> TRUE,
          record |-> [held |-> TRUE, value |-> value, by |-> by, ttl |-> LockTtl]]

(* Faulty variant: the value read from the store is returned without        *)
(* being kept in the request cache.                                         *)
Remember_Skip(rc, i, v) == rc

(* self.request_cache[key] = value *)
Remember(rc, i, v) == [rc EXCEPT ![i] = v]

MaxFaults == 1           \* failures and cancellations in one behaviour

NoOutcome == [kind |-> "none", v |-> Nil]
Returns(v) == [kind |-> "return", v |-> v]
Raises(e) == [kind |-> "raise", v |-> e]
NoReply == [kind |-> "none", text |-> Nil]

(* CacheLock is handed its store client (redis_client): the decoding one   *)
(* connect() creates, or a client that replies in bytes, which is what the  *)
(* comparison with lock_value.encode() in __aexit__ is written for.  The    *)
(* cache key may already be in the store, written by an earlier request.    *)
InitCache ==
    /\ decode_responses \in BOOLEAN
    /\ cache_val \in {Nil} \cup { JsonDumps(v) : v \in FetchValues }
    /\ lock = NoLock
    /\ request_cache = [i \in Instances |-> Missing]
    /\ c_pc = [p \in CacheCallers |-> "idle"]
    /\ c_attempt = [p \in CacheCallers |-> 0]
    /\ c_token = [p \in CacheCallers |-> NoToken]
    /\ c_reply = [p \in CacheCallers |-> NoReply]
    /\ c_out = [p \in CacheCallers |-> NoOutcome]
    /\ c_path = [p \in CacheCallers |-> "none"]
    /\ c_fetches = [p \in CacheCallers |-> 0]
    /\ c_ops = [p \in CacheCallers |-> 0]
    /\ c_sleep = [p \in CacheCallers |-> 0]
    /\ lost = [p \in CacheCallers |-> "no"]
    /\ faults = 0

(* Between __aenter__ returning and __aexit__ finishing. *)
InBlock == {"recheck", "recheck_resume", "fetching", "setex", "exit_get",
            "exit_del"}
(* In the block, with the computed value not yet written to the store. *)
BeforeStore == {"recheck", "recheck_resume", "fetching", "setex"}
(* Paths on which a value was fetched and did not reach the store. *)
NoWrite == {"write_failed", "write_cancelled", "fetch_raised", "fetch_timeout"}
(* What fetch_fn raises: an error of its own, or the built-in TimeoutError  *)
(* (asyncio.TimeoutError, a timed-out query).                               *)
FetchErrors == {"FetchError", "TimeoutError"}
Holding(p) == c_pc[p] \in InBlock

(* The holder whose record leaves the store without its own release. *)
Lose(rec) ==
    IF rec.held /\ rec.by \in CacheCallers /\ Holding(rec.by)
    THEN [lost EXCEPT ![rec.by] =
            IF c_pc[rec.by] \in BeforeStore THEN "early" ELSE "late"]
    ELSE lost

(* Where a caller stands when __aexit__ has finished: a TimeoutError        *)
(* raised in the block is caught by `except TimeoutError` of get, whose     *)
(* wait loop starts; a return or any other exception leaves get.            *)
AfterBlock(p) ==
    IF c_out[p] = Raises("TimeoutError") THEN "wait_read" ELSE "done"

(* The call leaves get. *)
Leave(p, out, path) ==
    /\ c_pc' = [c_pc EXCEPT ![p] = "done"]
    /\ c_out' = [c_out EXCEPT ![p] = out]
    /\ c_path' = [c_path EXCEPT ![p] = path]

(* get, level 1: the request cache; on a miss the GET of level 2 is sent. *)
Call(p) ==
    /\ c_pc[p] = "idle"
    /\ IF request_cache[InstanceOf(p)] # Missing
       THEN Leave(p, Returns(request_cache[InstanceOf(p)]), "request_cache")
       ELSE /\ c_pc' = [c_pc EXCEPT ![p] = "l2_get"]
            /\ UNCHANGED <<c_out, c_path>>
    /\ UNCHANGED <<c_sleep, decode_responses, cache_val, lock, request_cache, c_attempt,
                   c_token, c_reply, c_fetches, c_ops, lost, faults>>
    /\ UNCHANGED other_than_cache

(* The store answers the GET of level 2.  On a miss get goes on, touching   *)
(* nothing shared, to build the CacheLock (lock_value t) and send its first *)
(* SET NX; a hit waits for get to resume.                                   *)
L2Get(p, t) ==
    /\ c_pc[p] = "l2_get"
    /\ c_ops' = [c_ops EXCEPT ![p] = Min(@ + 1, 2)]
    /\ IF Truthy(cache_val)
       THEN /\ c_reply' = [c_reply EXCEPT ![p] =
                              ClientReply(decode_responses, cache_val)]
            /\ c_pc' = [c_pc EXCEPT ![p] = "l2_resume"]
            /\ UNCHANGED <<c_token, c_attempt>>
       ELSE /\ c_token' = [c_token EXCEPT ![p] = t]
            /\ c_attempt' = [c_attempt EXCEPT ![p] = 0]
            /\ c_pc' = [c_pc EXCEPT ![p] = "acquire"]
            /\ UNCHANGED c_reply
    /\ UNCHANGED <<c_sleep, decode_responses, cache_val, lock, request_cache, c_out,
                   c_path, c_fetches, lost, faults>>
    /\ UNCHANGED other_than_cache

(* get resumes on a hit: the value is decoded, kept in the request cache    *)
(* and returned.                                                            *)
L2Resume(p) ==
    /\ c_pc[p] = "l2_resume"
    /\ request_cache' = Remember(request_cache, InstanceOf(p),
                                 JsonLoads(c_reply[p].text))
    /\ Leave(p, Returns(JsonLoads(c_reply[p].text)), "redis")
    /\ c_reply' = [c_reply EXCEPT ![p] = NoReply]
    /\ UNCHANGED <<c_sleep, decode_responses, cache_val, lock, c_attempt, c_token,
                   c_fetches, c_ops, lost, faults>>
    /\ UNCHANGED other_than_cache

(* __aenter__: the store runs one SET NX EX.  On success the block is       *)
(* entered and its GET sent; otherwise the caller sleeps, longer each       *)
(* time, and tries again, and after max_retries attempts and the sleep of   *)
(* the last one TimeoutError takes get to its wait loop.                    *)
Acquire(p) ==
    /\ c_pc[p] = "acquire"
    /\ LET r == SetNX(lock, c_token[p], p)
       IN /\ lock' = r.record
          /\ IF r.ok
             THEN /\ c_pc' = [c_pc EXCEPT ![p] = "recheck"]
                  /\ c_attempt' = [c_attempt EXCEPT ![p] = 0]
                  /\ c_sleep' = [c_sleep EXCEPT ![p] = 0]
             ELSE /\ c_sleep' = [c_sleep EXCEPT ![p] = RetryDelay(c_attempt[p])]
                  /\ IF c_attempt[p] + 1 < max_retries
                     THEN /\ c_attempt' = [c_attempt EXCEPT ![p] = @ + 1]
                          /\ UNCHANGED c_pc
                     ELSE /\ c_pc' = [c_pc EXCEPT ![p] = "wait_read"]
                          /\ c_attempt' = [c_attempt EXCEPT ![p] = 0]
    /\ c_ops' = [c_ops EXCEPT ![p] = Min(@ + 1, 2)]
    /\ UNCHANGED <<decode_responses, cache_val, request_cache, c_token, c_reply,
                   c_out, c_path, c_fetches, lost, faults>>
    /\ UNCHANGED other_than_cache

(* The store answers the GET made under the lock.  On a miss the block     *)
(* goes on to call fetch_fn; a value found waits for the block to resume.   *)
Recheck(p) ==
    /\ c_pc[p] = "recheck"
    /\ c_ops' = [c_ops EXCEPT ![p] = Min(@ + 1, 2)]
    /\ IF Truthy(cache_val)
       THEN /\ c_reply' = [c_reply EXCEPT ![p] =
                              ClientReply(decode_responses, cache_val)]
            /\ c_pc' = [c_pc EXCEPT ![p] = "recheck_resume"]
       ELSE /\ c_pc' = [c_pc EXCEPT ![p] = "fetching"]
            /\ UNCHANGED c_reply
    /\ UNCHANGED <<c_sleep, decode_responses, cache_val, lock, request_cache, c_attempt,
                   c_token, c_out, c_path, c_fetches, lost, faults>>
    /\ UNCHANGED other_than_cache

(* The block resumes with the value found: it is decoded, kept in the       *)
(* request cache and returned through __aexit__, whose GET is sent.         *)
RecheckResume(p) ==
    /\ c_pc[p] = "recheck_resume"
    /\ request_cache' = Remember(request_cache, InstanceOf(p),
                                 JsonLoads(c_reply[p].text))
    /\ c_out' = [c_out EXCEPT ![p] = Returns(JsonLoads(c_reply[p].text))]
    /\ c_path' = [c_path EXCEPT ![p] = "recheck"]
    /\ c_pc' = [c_pc EXCEPT ![p] = "exit_get"]
    /\ c_reply' = [c_reply EXCEPT ![p] = NoReply]
    /\ UNCHANGED <<c_sleep, decode_responses, cache_val, lock, c_attempt, c_token,
                   c_fetches, c_ops, lost, faults>>
    /\ UNCHANGED other_than_cache

(* fetch_fn returns v under the lock: v goes to the request cache and the   *)
(* SETEX of its JSON text is sent.                                          *)
Fetch(p, v) ==
    /\ c_pc[p] = "fetching"
    /\ c_fetches' = [c_fetches EXCEPT ![p] = @ + 1]
    /\ request_cache' = Remember(request_cache, InstanceOf(p), v)
    /\ c_out' = [c_out EXCEPT ![p] = Returns(v)]
    /\ c_path' = [c_path EXCEPT ![p] = "computed"]
    /\ c_pc' = [c_pc EXCEPT ![p] = "setex"]
    /\ UNCHANGED <<c_sleep, decode_responses, cache_val, lock, c_attempt, c_token, c_reply,
                   c_ops, lost, faults>>
    /\ UNCHANGED other_than_cache

(* The store runs the SETEX; the block returns through __aexit__. *)
SetEx(p) ==
    /\ c_pc[p] = "setex"
    /\ cache_val' = JsonDumps(c_out[p].v)
    /\ c_ops' = [c_ops EXCEPT ![p] = Min(@ + 1, 2)]
    /\ c_pc' = [c_pc EXCEPT ![p] = "exit_get"]
    /\ UNCHANGED <<c_sleep, decode_responses, lock, request_cache, c_attempt, c_token,
                   c_reply, c_out, c_path, c_fetches, lost, faults>>
    /\ UNCHANGED other_than_cache

(* __aexit__: the store answers GET lock:<key>; the delete is sent only     *)
(* when the reply equals the encoded lock_value, else the block is left.    *)
ExitGet(p) ==
    /\ c_pc[p] = "exit_get"
    /\ c_ops' = [c_ops EXCEPT ![p] = Min(@ + 1, 2)]
    /\ IF StillOwner(LockReply(decode_responses, lock), c_token[p])
       THEN c_pc' = [c_pc EXCEPT ![p] = "exit_del"]
       ELSE c_pc' = [c_pc EXCEPT ![p] = AfterBlock(p)]
    /\ UNCHANGED <<c_sleep, decode_responses, cache_val, lock, request_cache, c_attempt,
                   c_token, c_reply, c_out, c_path, c_fetches, lost, faults>>
    /\ UNCHANGED other_than_cache

(* __aexit__: the store runs DELETE lock:<key>. *)
ExitDel(p) ==
    /\ c_pc[p] = "exit_del"
    /\ lock' = NoLock
    /\ lost' = IF lock.by = p THEN lost ELSE Lose(lock)
    /\ c_ops' = [c_ops EXCEPT ![p] = Min(@ + 1, 2)]
    /\ c_pc' = [c_pc EXCEPT ![p] = AfterBlock(p)]
    /\ UNCHANGED <<c_sleep, decode_responses, cache_val, request_cache, c_attempt, c_token,
                   c_reply, c_out, c_path, c_fetches, faults>>
    /\ UNCHANGED other_than_cache

(* After TimeoutError: sleep, then the store answers a GET of the key; a    *)
(* value found is returned, and after wait_reads misses get fetches itself. *)
(* The path of a call whose fetch_fn raised the TimeoutError stays          *)
(* "fetch_timeout" to its end.                                              *)
WaitRead(p) ==
    /\ c_pc[p] = "wait_read"
    /\ c_ops' = [c_ops EXCEPT ![p] = Min(@ + 1, 2)]
    /\ IF Truthy(cache_val)
       THEN /\ Leave(p, Returns(JsonLoads(cache_val)),
                      IF c_path[p] \in NoWrite THEN c_path[p] ELSE "wait_read")
            /\ UNCHANGED c_attempt
       ELSE IF c_attempt[p] + 1 < wait_reads
       THEN /\ c_attempt' = [c_attempt EXCEPT ![p] = @ + 1]
            /\ UNCHANGED <<c_pc, c_out, c_path>>
       ELSE /\ c_pc' = [c_pc EXCEPT ![p] = "fetch_direct"]
            /\ UNCHANGED <<c_attempt, c_out, c_path>>
    /\ UNCHANGED <<c_sleep, decode_responses, cache_val, lock, request_cache, c_token,
                   c_reply, c_fetches, lost, faults>>
    /\ UNCHANGED other_than_cache

(* Faulty variant: the TimeoutError of the lock is raised to the caller. *)
FetchDirect_Raise(p, v) ==
    /\ c_pc[p] = "fetch_direct"
    /\ Leave(p, Raises("TimeoutError"), "unprotected")
    /\ UNCHANGED <<c_sleep, decode_responses, cache_val, lock, request_cache,
                   c_attempt, c_token, c_reply, c_fetches, c_ops, lost, faults>>
    /\ UNCHANGED other_than_cache

(* return await fetch_fn(), with no lock held. *)
FetchDirect(p, v) ==
    /\ c_pc[p] = "fetch_direct"
    /\ c_fetches' = [c_fetches EXCEPT ![p] = @ + 1]
    /\ Leave(p, Returns(v),
             IF c_path[p] \in NoWrite THEN c_path[p] ELSE "unprotected")
    /\ UNCHANGED <<c_sleep, decode_responses, cache_val, lock, request_cache, c_attempt,
                   c_token, c_reply, c_ops, lost, faults>>
    /\ UNCHANGED other_than_cache

(* The ttl of the lock record runs out and the store drops it. *)
Expire ==
    /\ lock.held
    /\ lock.ttl > 0
    /\ lock' = NoLock
    /\ lost' = Lose(lock)
    /\ UNCHANGED <<c_sleep, decode_responses, cache_val, request_cache, c_pc, c_attempt,
                   c_token, c_reply, c_out, c_path, c_fetches, c_ops, faults>>
    /\ UNCHANGED other_than_cache

(* A store round trip fails (store unreachable) and the client raises.      *)
(* Outside the block the error leaves get; inside it __aexit__ runs first;  *)
(* raised by __aexit__ itself it replaces the pending outcome.              *)
StoreFail(p) ==
    /\ faults < MaxFaults
    /\ c_pc[p] \in {"l2_get", "acquire", "recheck", "setex", "exit_get",
                    "exit_del", "wait_read"}
    /\ faults' = faults + 1
    /\ c_ops' = [c_ops EXCEPT ![p] = Min(@ + 1, 2)]
    /\ IF c_pc[p] \in {"recheck", "setex"}
       THEN /\ c_pc' = [c_pc EXCEPT ![p] = "exit_get"]
            /\ c_out' = [c_out EXCEPT ![p] = Raises("StoreError")]
            /\ c_path' = [c_path EXCEPT ![p] =
                             IF c_pc[p] = "setex" THEN "write_failed" ELSE "raised"]
       ELSE Leave(p, Raises("StoreError"),
                  IF c_path[p] \in NoWrite THEN c_path[p] ELSE "raised")
    /\ UNCHANGED <<c_sleep, decode_responses, cache_val, lock, request_cache, c_attempt,
                   c_token, c_reply, c_fetches, lost>>
    /\ UNCHANGED other_than_cache

(* Faulty variant: the exception of fetch_fn leaves get without __aexit__. *)
FetchRaise_NoExit(p) ==
    /\ faults < MaxFaults
    /\ c_pc[p] = "fetching"
    /\ faults' = faults + 1
    /\ c_fetches' = [c_fetches EXCEPT ![p] = @ + 1]
    /\ Leave(p, Raises("FetchError"), "fetch_raised")
    /\ UNCHANGED <<c_sleep, decode_responses, cache_val, lock, request_cache,
                   c_attempt, c_token, c_reply, c_ops, lost>>
    /\ UNCHANGED other_than_cache

(* fetch_fn raises under the lock: nothing is stored and the exception     *)
(* leaves the block through __aexit__.                                      *)
FetchRaise(p) ==
    /\ faults < MaxFaults
    /\ c_pc[p] = "fetching"
    /\ faults' = faults + 1
    /\ c_fetches' = [c_fetches EXCEPT ![p] = @ + 1]
    /\ \E err \in FetchErrors :
          /\ c_out' = [c_out EXCEPT ![p] = Raises(err)]
          /\ c_path' = [c_path EXCEPT ![p] =
                           IF err = "TimeoutError" THEN "fetch_timeout"
                           ELSE "fetch_raised"]
    /\ c_pc' = [c_pc EXCEPT ![p] = "exit_get"]
    /\ UNCHANGED <<c_sleep, decode_responses, cache_val, lock, request_cache,
                   c_attempt, c_token, c_reply, c_ops, lost>>
    /\ UNCHANGED other_than_cache

(* The caller's task is cancelled while it waits at an await of get:        *)
(* CancelledError is raised there.  In the block it leaves through          *)
(* __aexit__ (a fetch_fn that was waiting counts as run, a SETEX that was   *)
(* waiting as not done); anywhere else, __aexit__ included, it leaves get.  *)
Cancel(p) ==
    /\ faults < MaxFaults
    /\ c_pc[p] \in {"l2_get", "acquire", "recheck", "fetching", "setex",
                    "exit_get", "exit_del", "wait_read", "fetch_direct"}
    /\ faults' = faults + 1
    /\ c_fetches' = [c_fetches EXCEPT ![p] =
                        IF c_pc[p] \in {"fetching", "fetch_direct"} THEN @ + 1 ELSE @]
    /\ IF c_pc[p] \in BeforeStore
       THEN /\ c_pc' = [c_pc EXCEPT ![p] = "exit_get"]
            /\ c_out' = [c_out EXCEPT ![p] = Raises("CancelledError")]
            /\ c_path' = [c_path EXCEPT ![p] =
                             CASE c_pc[p] = "fetching" -> "fetch_raised"
                               [] c_pc[p] = "setex" -> "write_cancelled"
                               [] OTHER -> "cancelled"]
       ELSE Leave(p, Raises("CancelledError"),
                  IF c_path[p] \in NoWrite THEN c_path[p]
                  ELSE IF c_pc[p] = "fetch_direct" THEN "unprotected_cancelled"
                  ELSE "cancelled")
    /\ UNCHANGED <<c_sleep, decode_responses, cache_val, lock, request_cache,
                   c_attempt, c_token, c_reply, c_ops, lost>>
    /\ UNCHANGED other_than_cache

NextCache ==
    \/ \E p \in CacheCallers : Call(p)
    \/ \E p \in CacheCallers : \E t \in LockValues(p, c_token) : L2Get(p, t)
    \/ \E p \in CacheCallers : L2Resume(p)
    \/ \E p \in CacheCallers : Acquire(p)
    \/ \E p \in CacheCallers : Recheck(p)
    \/ \E p \in CacheCallers : RecheckResume(p)
    \/ \E p \in CacheCallers, v \in FetchValues : Fetch(p, v)
    \/ \E p \in CacheCallers : SetEx(p)
    \/ \E p \in CacheCallers : ExitGet(p)
    \/ \E p \in CacheCallers : ExitDel(p)
    \/ \E p \in CacheCallers : WaitRead(p)
    \/ \E p \in CacheCallers, v \in FetchValues : FetchDirect(p, v)
    \/ \E p \in CacheCallers : StoreFail(p)
    \/ \E p \in CacheCallers : FetchRaise(p)
    \/ \E p \in CacheCallers : Cancel(p)
    \/ Expire

----------------------------------------------------------------------------
(* CacheService over several keys: set, delete, clear_request_cache and     *)
(* invalidate.  Keys and patterns are texts, written as sequences of        *)
(* characters so that Python's "in" and the store's glob can be computed.   *)

CostsPrefix == <<"c", "o", "s", "t", "s", ":">>
Costs1 == CostsPrefix \o <<"1">>
Costs10 == CostsPrefix \o <<"1", "0">>
Users1 == <<"u", "s", "e", "r", "s", ":", "1">>
CostsStar == CostsPrefix \o <<"*">>

Keys == {Costs1, Costs10, Users1}
Patterns == {CostsStar, Costs1, Costs10, Users1}
SetValues == {"(1, 2)", "None"}

(* Python's "pattern in k" on texts: pattern occurs in k as a substring. *)
Contains(pattern, k) ==
    \E i \in 0..(Len(k) - Len(pattern)) : SubSeq(k, i + 1, i + Len(pattern)) = pattern

(* "*" in pattern *)
HasStar(pattern) == \E i \in 1..Len(pattern) : pattern[i] = "*"

(* The store's KEYS <pattern>: glob matching, "*" standing for any run of   *)
(* characters and every other character of these patterns for itself.       *)
RECURSIVE GlobMatch(_, _)
GlobMatch(pattern, k) ==
    IF pattern = <<>> THEN k = <<>>
    ELSE IF Head(pattern) = "*"
    THEN GlobMatch(Tail(pattern), k) \/ (k # <<>> /\ GlobMatch(pattern, Tail(k)))
    ELSE k # <<>> /\ Head(k) = Head(pattern) /\ GlobMatch(Tail(pattern), Tail(k))

(* redis.keys(pattern): the stored keys the pattern matches. *)
StoreKeys(store, pattern) == { k \in Keys : store[k] # Nil /\ GlobMatch(pattern, k) }

InitKeys ==
    /\ key_cache = [k \in Keys |-> Missing]
    /\ key_store = [k \in Keys |-> Nil]

InitInvalidate ==
    /\ redis = FALSE
    /\ InitKeys

(* connect(): the service gets its store client. *)
Connect ==
    /\ ~redis
    /\ redis' = TRUE
    /\ UNCHANGED <<key_cache, key_store>>
    /\ UNCHANGED other_than_inv

(* set(key, value): the request cache, then SETEX when a client exists. *)
Set(k, v) ==
    /\ key_cache' = [key_cache EXCEPT ![k] = v]
    /\ key_store' = IF redis THEN [key_store EXCEPT ![k] = JsonDumps(v)] ELSE key_store
    /\ UNCHANGED redis
    /\ UNCHANGED other_than_inv

(* delete(key): pop from the request cache, then DEL when a client exists. *)
Delete(k) ==
    /\ key_cache' = [key_cache EXCEPT ![k] = Missing]
    /\ key_store' = IF redis THEN [key_store EXCEPT ![k] = Nil] ELSE key_store
    /\ UNCHANGED redis
    /\ UNCHANGED other_than_inv

(* clear_request_cache(), called at the end of a request. *)
ClearRequestCache ==
    /\ key_cache' = [k \in Keys |-> Missing]
    /\ UNCHANGED <<redis, key_store>>
    /\ UNCHANGED other_than_inv

(* The ttl given to SETEX runs out and the store drops the entry. *)
EntryExpire(k) ==
    /\ key_store[k] # Nil
    /\ key_store' = [key_store EXCEPT ![k] = Nil]
    /\ UNCHANGED <<redis, key_cache>>
    /\ UNCHANGED other_than_inv

(* invalidate(pattern).  Without a client it returns at once.  Otherwise    *)
(* the request-cache keys that contain the pattern are deleted; then, for   *)
(* a pattern with "*", the stored keys that KEYS returns are deleted, and   *)
(* for any other pattern the key of that name is.                           *)
Invalidate(pattern) ==
    /\ IF ~redis
       THEN UNCHANGED <<redis, key_cache, key_store>>
       ELSE /\ key_cache' = [k \in Keys |->
                               IF key_cache[k] # Missing /\ Contains(pattern, k)
                               THEN Missing ELSE key_cache[k]]
            /\ key_store' = IF HasStar(pattern)
                            THEN [k \in Keys |->
                                    IF k \in StoreKeys(key_store, pattern)
                                    THEN Nil ELSE key_store[k]]
                            ELSE [k \in Keys |-> IF k = pattern THEN Nil ELSE key_store[k]]
            /\ UNCHANGED redis
    /\ UNCHANGED other_than_inv

NextInvalidate ==
    \/ Connect
    \/ \E k \in Keys : \E v \in SetValues : Set(k, v)
    \/ \E k \in Keys : Delete(k)
    \/ ClearRequestCache
    \/ \E k \in Keys : EntryExpire(k)
    \/ \E pattern \in Patterns : Invalidate(pattern)

----------------------------------------------------------------------------
(* One caller calling is_allowed in sequence on one key, each call run to   *)
(* its return before the next starts.  The value under the key is kept as   *)
(* the store holds it: nothing, the JSON the script wrote, or a text that   *)
(* cjson.decode rejects (written by something other than the script).       *)

MaxSeqCalls == 12        \* is_allowed calls in one behaviour
MaxSeqClock == 5         \* last clock reading, in seconds
SeqWaits == {1, 5}       \* seconds the caller may wait between calls

NilValue == [kind |-> "nil", state |-> Absent]
GarbageValue == [kind |-> "garbage", state |-> Absent]
(* cjson.encode(state) *)
CjsonEncode(state) == [kind |-> "json", state |-> state]
(* cjson.decode(current): defined on what cjson.encode wrote. *)
Decodable(value) == value.kind = "json"
CjsonDecode(value) == value.state

(* One run of the script on the stored value.  GET gives nil or the text;   *)
(* cjson.decode of a text it cannot parse raises, the run is aborted with   *)
(* nothing written and the client raises ResponseError (a RedisError).      *)
RunScript(value, max_tokens, refill_rate, now) ==
    IF value.kind = "garbage"
    THEN [error |-> TRUE, value |-> value, reply |-> NoneReply]
    ELSE LET out == LUA_SCRIPT(IF value.kind = "nil" THEN Absent
                                                     ELSE CjsonDecode(value),
                               max_tokens, refill_rate, now)
         IN [error |-> FALSE, value |-> CjsonEncode(out.state), reply |-> out.reply]

(* What the calls so far were: allowed calls made at clock 0 on the fresh   *)
(* key, calls made later, anything else (0, 1 or 2 for more), and the       *)
(* clock reading of the last call.                                          *)
NoLog == [at0 |-> 0, later |-> 0, other |-> 0, last |-> 0]

InitSequence ==
    /\ s_policy \in Policies
    /\ s_clock = 0
    /\ s_value = NilValue
    /\ s_ret = NoRet
    /\ s_error = FALSE
    /\ s_count = 0
    /\ s_log = NoLog

(* The sequence not started: the state the other specifications keep. *)
QuietSequence ==
    /\ InitSequence
    /\ s_policy = [requests |-> 2, window |-> 60]

(* The caller waits. *)
SeqWait(d) ==
    /\ s_clock + d <= MaxSeqClock
    /\ s_clock' = s_clock + d
    /\ UNCHANGED <<s_policy, s_value, s_ret, s_error, s_count, s_log>>
    /\ UNCHANGED other_than_seq

(* is_allowed(client_id, max_requests, window_seconds), from its first      *)
(* line to its return.                                                      *)
SeqAllow ==
    /\ s_count < MaxSeqCalls
    /\ s_count' = s_count + 1
    /\ LET max_requests == s_policy.requests
           refill_rate == RefillRate(max_requests, s_policy.window)
           out == RunScript(s_value, max_requests, refill_rate, s_clock)
           ret == IF out.error THEN FailOpen(max_requests)
                  ELSE Normalize(out.reply, max_requests)
       IN /\ s_value' = out.value
          /\ s_ret' = ret
          /\ s_error' = out.error
          /\ s_log' = IF s_clock = 0 /\ ret.allowed /\ ~out.error
                      THEN [s_log EXCEPT !.at0 = @ + 1]
                      ELSE IF s_clock > 0
                      THEN [s_log EXCEPT !.later = Min(@ + 1, 2), !.last = s_clock]
                      ELSE [s_log EXCEPT !.other = Min(@ + 1, 2)]
    /\ UNCHANGED <<s_policy, s_clock>>
    /\ UNCHANGED other_than_seq

(* Something other than the script overwrites the key with a text that is   *)
(* not the JSON of a bucket.                                                *)
Garble ==
    /\ s_value.kind # "garbage"
    /\ s_value' = GarbageValue
    /\ s_log' = [s_log EXCEPT !.other = Min(@ + 1, 2)]
    /\ UNCHANGED <<s_policy, s_clock, s_ret, s_error, s_count>>
    /\ UNCHANGED other_than_seq

NextSequence ==
    \/ \E d \in SeqWaits : SeqWait(d)
    \/ SeqAllow
    \/ Garble

----------------------------------------------------------------------------
(* get_dynamic_limit and the health check behind it.                        *)

(* class ClientTier(str, Enum): its four members are strings.  A caller     *)
(* may also pass a plain string that names no tier, or a value that is no   *)
(* string at all.                                                           *)
ClientTier == {"public", "authenticated", "admin", "service_account"}
NoneTier == "None"
TierArgs == ClientTier \cup {"guest", NoneTier}
(* isinstance(client_tier, str) *)
IsStr(client_tier) == client_tier # NoneTier

Policy(requests, window) == [requests |-> requests, window |-> window]

(* RateLimitConfig.TIER_LIMITS *)
TIER_LIMITS ==
    [t \in ClientTier |->
        CASE t = "public" -> Policy(100, 60)
          [] t = "authenticated" -> Policy(1000, 60)
          [] t = "admin" -> Policy(5000, 60)
          [] t = "service_account" -> Policy(10000, 60)]

(* RateLimitConfig.ENDPOINT_LIMITS as shipped. *)
PostProjects == <<"POST", "/api/v2/projects">>
GetCosts == <<"GET", "/api/v2/costs">>
GetReports == <<"GET", "/api/v2/compliance/reports">>
GetLogin == <<"GET", "/auth/login">>
ENDPOINT_LIMITS ==
    [k \in {PostProjects, GetCosts, GetReports, GetLogin} |->
        CASE k = PostProjects -> Policy(10, 60)
          [] k = GetCosts -> Policy(100, 60)
          [] k = GetReports -> Policy(50, 60)
          [] k = GetLogin -> Policy(10, 60)]

(* RateLimitConfig.DEFAULT_ENDPOINT_LIMIT *)
DEFAULT_ENDPOINT_LIMIT == Policy(1000, 60)

(* ENDPOINT_LIMITS is the table a deployment edits for its per-endpoint     *)
(* limits: the shipped table, and the table with a lower limit on project   *)
(* creation.                                                                *)
OverrideCapacities == {1, 4, 5}
EndpointTables ==
    {ENDPOINT_LIMITS} \cup
    { [ENDPOINT_LIMITS EXCEPT ![PostProjects] = Policy(n, 60)] : n \in OverrideCapacities }

(* The (method, endpoint) pairs of the calls: the four in the table, a      *)
(* listed path under another method, and a path not listed.                 *)
EndpointArgs ==
    DOMAIN ENDPOINT_LIMITS \cup {<<"GET", "/api/v2/projects">>, <<"GET", "/">>}

(* Faulty variant: the tier table is consulted before the overrides. *)
BaseLimit_TierFirst(table, client_tier, endpoint_key) ==
    IF client_tier \in DOMAIN TIER_LIMITS THEN TIER_LIMITS[client_tier]
    ELSE IF endpoint_key \in DOMAIN table THEN table[endpoint_key]
    ELSE DEFAULT_ENDPOINT_LIMIT

(* base_limit: the override of the exact (method, endpoint) pair, else      *)
(* TIER_LIMITS.get(client_tier, DEFAULT_ENDPOINT_LIMIT).                    *)
BaseLimit(table, client_tier, endpoint_key) ==
    IF endpoint_key \in DOMAIN table THEN table[endpoint_key]
    ELSE IF client_tier \in DOMAIN TIER_LIMITS THEN TIER_LIMITS[client_tier]
    ELSE DEFAULT_ENDPOINT_LIMIT

(* int(base_limit["requests"] * 0.2), * 0.5, or unscaled.  The product is   *)
(* a float and int() drops its fraction; for the capacities here that is    *)
(* the whole part of requests / 5 and of requests / 2.                      *)
AdjustedRequests(requests, status) ==
    CASE status = "critical" -> (requests * 2) \div 10
      [] status = "degraded" -> (requests * 5) \div 10
      [] OTHER -> requests

(* What get_dynamic_limit returns: the bare number for a tier that is a     *)
(* string, the dict with requests and window otherwise.  A bare number      *)
(* carries no window (0 here).                                              *)
BareLimit(adjusted_requests) ==
    [kind |-> "int", requests |-> adjusted_requests, window |-> 0]
DictLimit(adjusted_requests, window) ==
    [kind |-> "dict", requests |-> adjusted_requests, window |-> window]
NoLimit == [kind |-> "none", requests |-> 0, window |-> 0]

(* self._health_check_interval *)
health_check_interval == 10

(* _get_queue_depth is the hook for the load signal (the shipped stub       *)
(* answers 0): the depths around the two thresholds, or an exception.       *)
QueueDepths == {0, 500, 501, 1000, 1001}
SampleRaises == -1
Samples == QueueDepths \cup {SampleRaises}
NotSampled == -2

(* Faulty variant: a failed sampling answers with the cached status. *)
CheckBackendHealth_CachedOnError(status, last_check, now, sample) ==
    IF now - last_check < health_check_interval \/ sample = SampleRaises
    THEN [status |-> status, health_status |-> status,
          last_health_check |-> last_check, sampled |-> sample = SampleRaises]
    ELSE [status |-> IF sample > 1000 THEN "critical"
                     ELSE IF sample > 500 THEN "degraded" ELSE "healthy",
          health_status |-> IF sample > 1000 THEN "critical"
                            ELSE IF sample > 500 THEN "degraded" ELSE "healthy",
          last_health_check |-> now, sampled |-> TRUE]

(* The classification of a sampled depth. *)
Classify(queue_depth) ==
    IF queue_depth > 1000 THEN "critical"
    ELSE IF queue_depth > 500 THEN "degraded"
    ELSE "healthy"

(* _check_backend_health at clock reading now, with what a sampling would   *)
(* give: the status returned, the two fields afterwards, and whether the    *)
(* load signal was sampled.                                                 *)
CheckBackendHealth(status, last_check, now, sample) ==
    IF now - last_check < health_check_interval
    THEN [status |-> status, health_status |-> status,
          last_health_check |-> last_check, sampled |-> FALSE]
    ELSE IF sample = SampleRaises
    THEN [status |-> "degraded", health_status |-> status,
          last_health_check |-> last_check, sampled |-> TRUE]
    ELSE [status |-> Classify(sample), health_status |-> Classify(sample),
          last_health_check |-> now, sampled |-> TRUE]

MaxDlClock == 30         \* last clock reading, in seconds
DlTickSteps == {5}

NoDlCall == [client_tier |-> "", endpoint_key |-> <<>>]

(* The limiter as constructed, at a clock reading at which the first        *)
(* health check is due (time.time() is far beyond the interval).            *)
InitDynamicLimit ==
    /\ endpoint_limits \in EndpointTables
    /\ dl_clock = health_check_interval
    /\ health_status = "healthy"
    /\ last_health_check = 0
    /\ dl_args = NoDlCall
    /\ dl_base = Policy(0, 0)
    /\ dl_status = "none"
    /\ dl_sampled = FALSE
    /\ dl_sample = NotSampled
    /\ dl_sample_at = 0
    /\ dl_ret = NoLimit

QuietDynamicLimit == InitDynamicLimit /\ endpoint_limits = ENDPOINT_LIMITS

DlTick(d) ==
    /\ dl_clock + d <= MaxDlClock
    /\ dl_clock' = dl_clock + d
    /\ UNCHANGED <<endpoint_limits, health_status, last_health_check, dl_args,
                   dl_base, dl_status, dl_sampled, dl_sample, dl_sample_at, dl_ret>>
    /\ UNCHANGED other_than_dl

(* get_dynamic_limit(client_tier, method, endpoint), from its first line    *)
(* to its return, the health check included.                                *)
GetDynamicLimit(client_tier, endpoint_key, sample) ==
    /\ LET base_limit == BaseLimit(endpoint_limits, client_tier, endpoint_key)
           health == CheckBackendHealth(health_status, last_health_check,
                                        dl_clock, sample)
           adjusted_requests == AdjustedRequests(base_limit.requests, health.status)
       IN /\ health_status' = health.health_status
          /\ last_health_check' = health.last_health_check
          /\ dl_sampled' = health.sampled
          /\ dl_sample' = IF health.sampled THEN sample ELSE NotSampled
          /\ dl_sample_at' = IF health.sampled THEN dl_clock ELSE dl_sample_at
          /\ dl_status' = health.status
          /\ dl_base' = base_limit
          /\ dl_ret' = IF IsStr(client_tier)
                       THEN BareLimit(adjusted_requests)
                       ELSE DictLimit(adjusted_requests, base_limit.window)
    /\ dl_args' = [client_tier |-> client_tier, endpoint_key |-> endpoint_key]
    /\ UNCHANGED <<endpoint_limits, dl_clock>>
    /\ UNCHANGED other_than_dl

NextDynamicLimit ==
    \/ \E d \in DlTickSteps : DlTick(d)
    \/ \E t \in TierArgs, k \in EndpointArgs, s \in Samples : GetDynamicLimit(t, k, s)

----------------------------------------------------------------------------
(* The TTL a value is stored with by CacheService.get and CacheService.set. *)
(* Keys are texts, written as sequences of characters.                      *)

(* CACHE_TTL_CONFIG, in the order of the dict. *)
CACHE_TTL_CONFIG ==
    <<
      [pattern |-> <<"p", "r", "o", "j", "e", "c", "t", "s", ":", "l", "i", "s", "t">>,
       ttl |-> 300],
      [pattern |-> <<"p", "r", "o", "j", "e", "c", "t", ":", "d", "e", "t", "a", "i", "l", "s">>,
       ttl |-> 600],
      [pattern |-> <<"c", "o", "m", "p", "l", "i", "a", "n", "c", "e", ":", "s", "c", "o", "r", "e", "s">>,
       ttl |-> 3600],
      [pattern |-> <<"c", "o", "m", "p", "l", "i", "a", "n", "c", "e", ":", "d", "e", "t", "a", "i", "l", "s">>,
       ttl |-> 1800],
      [pattern |-> <<"c", "o", "s", "t", "s", ":", "d", "a", "i", "l", "y">>,
       ttl |-> 86400],
      [pattern |-> <<"c", "o", "s", "t", "s", ":", "s", "u", "m", "m", "a", "r", "y">>,
       ttl |-> 3600],
      [pattern |-> <<"u", "s", "e", "r", ":", "p", "e", "r", "m", "i", "s", "s", "i", "o", "n", "s">>,
       ttl |-> 600],
      [pattern |-> <<"r", "e", "s", "o", "u", "r", "c", "e", ":", "l", "i", "s", "t">>,
       ttl |-> 1800],
      [pattern |-> <<"a", "u", "d", "i", "t", ":", "s", "u", "m", "m", "a", "r", "y">>,
       ttl |-> 3600]
    >>

CostsDaily2024 == <<"c", "o", "s", "t", "s", ":", "d", "a", "i", "l", "y", ":", "2", "0", "2", "4">>
CostsSummaryQ1 == <<"c", "o", "s", "t", "s", ":", "s", "u", "m", "m", "a", "r", "y", ":", "q", "1">>
ReportCostsDaily == <<"r", "e", "p", "o", "r", "t", ":", "c", "o", "s", "t", "s", ":", "d", "a", "i", "l", "y">>
TtlKeys == {CostsDaily2024, CostsSummaryQ1, ReportCostsDaily, Costs1, Users1}

(* The ttl argument: None, 0, or a number of seconds. *)
NoneTtl == -1
TtlArgs == {NoneTtl, 0, 60}
(* "not ttl" / "ttl or ...": None and 0 are falsy. *)
Falsy(ttl) == ttl = NoneTtl \/ ttl = 0

(* key.split(":")[0] *)
FirstSegment(k) ==
    IF \E i \in 1..Len(k) : k[i] = ":"
    THEN LET i == CHOOSE i \in 1..Len(k) :
                      k[i] = ":" /\ \A j \in 1..(i - 1) : k[j] # ":"
         IN SubSeq(k, 1, i - 1)
    ELSE k

(* get: cache_ttl = ttl; when that is falsy, the ttl of the first entry     *)
(* whose pattern is "in" the key; and 300 when there is none.               *)
GetTtl(k, ttl) ==
    IF ~Falsy(ttl) THEN ttl
    ELSE LET hits == { i \in 1..Len(CACHE_TTL_CONFIG) :
                          Contains(CACHE_TTL_CONFIG[i].pattern, k) }
         IN IF hits = {} THEN 300
            ELSE CACHE_TTL_CONFIG[CHOOSE i \in hits : \A j \in hits : i <= j].ttl

(* set: ttl or CACHE_TTL_CONFIG.get(key.split(":")[0], 300) *)
SetTtl(k, ttl) ==
    IF ~Falsy(ttl) THEN ttl
    ELSE LET hits == { i \in 1..Len(CACHE_TTL_CONFIG) :
                          CACHE_TTL_CONFIG[i].pattern = FirstSegment(k) }
         IN IF hits = {} THEN 300
            ELSE CACHE_TTL_CONFIG[CHOOSE i \in hits : TRUE].ttl

NoTtlCall == [op |-> "none", key |-> <<>>, ttl |-> NoneTtl]

(* Nothing stored yet (0: the key has not been written). *)
InitTtl ==
    /\ ttl_store = [k \in TtlKeys |-> 0]
    /\ ttl_last = NoTtlCall

QuietTtl == InitTtl

(* get(key, fetch_fn, ttl) on a miss, at the SETEX of the computed value. *)
GetStores(k, ttl) ==
    /\ ttl_store' = [ttl_store EXCEPT ![k] = GetTtl(k, ttl)]
    /\ ttl_last' = [op |-> "get", key |-> k, ttl |-> ttl]
    /\ UNCHANGED other_than_ttl

(* set(key, value, ttl), at its SETEX. *)
SetStores(k, ttl) ==
    /\ ttl_store' = [ttl_store EXCEPT ![k] = SetTtl(k, ttl)]
    /\ ttl_last' = [op |-> "set", key |-> k, ttl |-> ttl]
    /\ UNCHANGED other_than_ttl

NextTtl ==
    \/ \E k \in TtlKeys, ttl \in TtlArgs : GetStores(k, ttl)
    \/ \E k \in TtlKeys, ttl \in TtlArgs : SetStores(k, ttl)

----------------------------------------------------------------------------
(* The two calling forms of is_allowed and the shape of what it returns.    *)

(* max_or_tier: a tier name (a str or a ClientTier) or a number. *)
TierForm(max_or_tier) == max_or_tier.form = "tier"
TierNameArg(name) == [form |-> "tier", name |-> name, requests |-> 0]
NumericArg(n) == [form |-> "numeric", name |-> "", requests |-> n]
FormArgs ==
    { TierNameArg(t) : t \in ClientTier \cup {"guest"} }
        \cup { NumericArg(p.requests) : p \in Policies }

(* What the store call gives: the pair the script returns, the scalar a     *)
(* stubbed eval returns, a reply of another shape, or RedisError.           *)
RedisErrorRaised == [kind |-> "error", items |-> << >>, v |-> 0]
FormReplies ==
    { IntReply(0), IntReply(1), ListReply(<<IntItem(0), IntItem(0)>>),
      ListReply(<<IntItem(1), IntItem(1)>>), RedisErrorRaised }
        \cup MalformedReplies

(* The status the health check answers to get_dynamic_limit(tier). *)
HealthAnswers == {"healthy", "degraded", "critical"}

(* max_requests: for a tier, what get_dynamic_limit(tier) returns -- the    *)
(* bare number, the tier being a str; for the numeric form, the argument.   *)
MaxRequestsOf(max_or_tier, status) ==
    IF TierForm(max_or_tier)
    THEN AdjustedRequests(
             BaseLimit(ENDPOINT_LIMITS, max_or_tier.name, <<"GET", "/">>).requests,
             status)
    ELSE max_or_tier.requests

BoolReturn(b) == [shape |-> "bool", allowed |-> b]
PairReturn(b) == [shape |-> "pair", allowed |-> b]
RaisedValueError == [shape |-> "raise", allowed |-> FALSE]
NoReturn == [shape |-> "none", allowed |-> FALSE]

(* What is_allowed returns for a reply of the store call: ClientTier(name)  *)
(* raises ValueError for a name that is no tier; RedisError gives True or   *)
(* (True, fallback) by the form; a reply that is neither a list of two or   *)
(* more items nor an int gives (True, metadata) whatever the form; any      *)
(* other reply gives the decision, bare or in a pair by the form.           *)
IsAllowedReturn(max_or_tier, result, max_requests) ==
    IF TierForm(max_or_tier) /\ max_or_tier.name \notin ClientTier
    THEN RaisedValueError
    ELSE IF result.kind = "error"
    THEN IF TierForm(max_or_tier) THEN BoolReturn(TRUE) ELSE PairReturn(TRUE)
    ELSE IF ~(result.kind = "list" /\ Len(result.items) >= 2) /\ result.kind # "int"
    THEN PairReturn(TRUE)
    ELSE IF TierForm(max_or_tier)
    THEN BoolReturn(Normalize(result, max_requests).allowed)
    ELSE PairReturn(Normalize(result, max_requests).allowed)

NoFormCall == [max_or_tier |-> NumericArg(0), result |-> NoneReply, status |-> "none"]

InitForm ==
    /\ f_call = NoFormCall
    /\ f_ret = NoReturn

QuietForm == InitForm

(* is_allowed(client_id, max_or_tier) from its first line to its return. *)
IsAllowed(max_or_tier, status, result) ==
    /\ f_call' = [max_or_tier |-> max_or_tier, result |-> result, status |-> status]
    /\ f_ret' = IsAllowedReturn(max_or_tier, result,
                                MaxRequestsOf(max_or_tier, status))
    /\ UNCHANGED other_than_form

NextForm ==
    \E a \in FormArgs, h \in HealthAnswers, r \in FormReplies : IsAllowed(a, h, r)

----------------------------------------------------------------------------
(* The sliding-window limiter: check_limit(key, limit, window) of           *)
(* backend/middleware/rate_limit_distributed.py, concurrent callers on one  *)
(* key.  The sorted set holds one member per clock reading, str(now).       *)

NumWinCallers == 2       \* concurrent callers of check_limit
WinCallers == 1..NumWinCallers
MaxWinCalls == 3         \* check_limit calls started in one behaviour
MaxWinClock == 15        \* last clock reading, in seconds
WinTickSteps == {5}
WinLimits == {1, 2}
WinWindows == {10}
WinReadings == { t \in 0..MaxWinClock : t % 5 = 0 }

InitWindow ==
    /\ w_limit \in WinLimits
    /\ w_window \in WinWindows
    /\ w_clock = 0
    /\ zset = {}
    /\ w_expire_at = 0
    /\ w_pc = [p \in WinCallers |-> "idle"]
    /\ w_now = [p \in WinCallers |-> 0]
    /\ w_started = 0
    /\ granted = [t \in WinReadings |-> 0]

QuietWindow == InitWindow /\ w_limit = 1

WinTick(d) ==
    /\ w_clock + d <= MaxWinClock
    /\ w_clock' = w_clock + d
    /\ UNCHANGED <<w_limit, w_window, zset, w_expire_at, w_pc, w_now, w_started,
                   granted>>
    /\ UNCHANGED other_than_win

(* check_limit up to its first await: now = time.time(). *)
WinStart(p) ==
    /\ w_pc[p] = "idle"
    /\ w_started < MaxWinCalls
    /\ w_started' = w_started + 1
    /\ w_now' = [w_now EXCEPT ![p] = w_clock]
    /\ w_pc' = [w_pc EXCEPT ![p] = "zremrangebyscore"]
    /\ UNCHANGED <<w_limit, w_window, w_clock, zset, w_expire_at, granted>>
    /\ UNCHANGED other_than_win

(* The store runs ZREMRANGEBYSCORE key 0 window_start. *)
ZRemRangeByScore(p) ==
    /\ w_pc[p] = "zremrangebyscore"
    /\ zset' = { t \in zset : t > w_now[p] - w_window }
    /\ w_pc' = [w_pc EXCEPT ![p] = "zcard"]
    /\ UNCHANGED <<w_limit, w_window, w_clock, w_expire_at, w_now, w_started,
                   granted>>
    /\ UNCHANGED other_than_win

(* The store runs ZCARD key; at the limit the call returns False. *)
ZCard(p) ==
    /\ w_pc[p] = "zcard"
    /\ w_pc' = [w_pc EXCEPT ![p] =
                   IF Cardinality(zset) >= w_limit THEN "idle" ELSE "zadd"]
    /\ UNCHANGED <<w_limit, w_window, w_clock, zset, w_expire_at, w_now,
                   w_started, granted>>
    /\ UNCHANGED other_than_win

(* The store runs ZADD key now str(now). *)
ZAdd(p) ==
    /\ w_pc[p] = "zadd"
    /\ zset' = zset \cup {w_now[p]}
    /\ w_pc' = [w_pc EXCEPT ![p] = "expire"]
    /\ UNCHANGED <<w_limit, w_window, w_clock, w_expire_at, w_now, w_started,
                   granted>>
    /\ UNCHANGED other_than_win

(* The store runs EXPIRE key window + 1, and the call returns True. *)
WinExpire(p) ==
    /\ w_pc[p] = "expire"
    /\ w_expire_at' = IF zset = {} THEN w_expire_at ELSE w_clock + w_window + 1
    /\ granted' = [granted EXCEPT ![w_now[p]] = @ + 1]
    /\ w_pc' = [w_pc EXCEPT ![p] = "idle"]
    /\ UNCHANGED <<w_limit, w_window, w_clock, zset, w_now, w_started>>
    /\ UNCHANGED other_than_win

(* The expiry set on the key runs out and the store drops the set. *)
KeyExpires ==
    /\ zset # {}
    /\ w_expire_at > 0
    /\ w_clock >= w_expire_at
    /\ zset' = {}
    /\ w_expire_at' = 0
    /\ UNCHANGED <<w_limit, w_window, w_clock, w_pc, w_now, w_started, granted>>
    /\ UNCHANGED other_than_win

NextWindow ==
    \/ \E d \in WinTickSteps : WinTick(d)
    \/ \E p \in WinCallers : WinStart(p)
    \/ \E p \in WinCallers : ZRemRangeByScore(p)
    \/ \E p \in WinCallers : ZCard(p)
    \/ \E p \in WinCallers : ZAdd(p)
    \/ \E p \in WinCallers : WinExpire(p)
    \/ KeyExpires

----------------------------------------------------------------------------
(* The cache circuit breaker: CircuitBreaker.call(func) of                  *)
(* backend/services/cache.py, concurrent callers on one breaker.  Each      *)
(* `async with self._lock` body holds no await and the lock is free when it *)
(* is entered, so each body runs in one step together with the code that    *)
(* follows it up to the next await.                                         *)

threshold == 5           \* CircuitBreaker(threshold=5)
timeout == 30            \* CircuitBreaker(timeout=30.0), in seconds
NumCbCallers == 2        \* concurrent callers of call()
CbCallers == 1..NumCbCallers
MaxCbCalls == 4          \* call() invocations begun by one caller
MaxCbClock == 75         \* last clock reading, in seconds
CbStartClock == 15       \* time.time() at construction
CbTickSteps == {15}
NoFailureTime == 0       \* last_failure_time = None

(* Faulty variant: a breaker that never rejects a call. *)
StillOpen_Never(open, lft, now) == FALSE

(* The test made under the lock: open, a failure time recorded, and less   *)
(* than `timeout` seconds elapsed since it.                                 *)
StillOpen(open, lft, now) ==
    open /\ lft # NoFailureTime /\ ~(now - lft >= timeout)

(* self.failures after func returned. *)
FailuresAfterSuccess(f) == 0

InitBreaker ==
    /\ cb_clock = CbStartClock
    /\ failures = 0
    /\ last_failure_time = NoFailureTime
    /\ is_open = FALSE
    /\ cb_pc = [p \in CbCallers |-> "idle"]
    /\ cb_out = [p \in CbCallers |-> "none"]
    /\ cb_n = [p \in CbCallers |-> 0]
    /\ streak = 0

QuietBreaker == InitBreaker

CbTick(d) ==
    /\ cb_clock + d <= MaxCbClock
    /\ cb_clock' = cb_clock + d
    /\ UNCHANGED <<failures, last_failure_time, is_open, cb_pc, cb_out, cb_n,
                   streak>>
    /\ UNCHANGED other_than_cb

(* call() up to its first await: the locked test, then either the raise of *)
(* CacheUnavailableError or the invocation of func.                         *)
BreakerCall(p) ==
    /\ cb_pc[p] = "idle"
    /\ cb_n[p] < MaxCbCalls
    /\ cb_n' = [cb_n EXCEPT ![p] = @ + 1]
    /\ IF StillOpen(is_open, last_failure_time, cb_clock)
       THEN /\ cb_out' = [cb_out EXCEPT ![p] = "CacheUnavailableError"]
            /\ UNCHANGED <<cb_pc, is_open, failures>>
       ELSE /\ cb_pc' = [cb_pc EXCEPT ![p] = "func"]
            /\ cb_out' = [cb_out EXCEPT ![p] = "pending"]
            /\ IF is_open /\ last_failure_time # NoFailureTime
               THEN is_open' = FALSE /\ failures' = 0
               ELSE UNCHANGED <<is_open, failures>>
    /\ UNCHANGED <<cb_clock, last_failure_time, streak>>
    /\ UNCHANGED other_than_cb

(* func returns: the count is reset under the lock and the result returned. *)
FuncReturns(p) ==
    /\ cb_pc[p] = "func"
    /\ failures' = FailuresAfterSuccess(failures)
    /\ streak' = 0
    /\ cb_pc' = [cb_pc EXCEPT ![p] = "idle"]
    /\ cb_out' = [cb_out EXCEPT ![p] = "result"]
    /\ UNCHANGED <<cb_clock, last_failure_time, is_open, cb_n>>
    /\ UNCHANGED other_than_cb

(* func raises an Exception: the failure is counted under the lock, the    *)
(* breaker opens at the threshold, and the exception is raised again.       *)
FuncRaises(p) ==
    /\ cb_pc[p] = "func"
    /\ failures' = failures + 1
    /\ last_failure_time' = cb_clock
    /\ is_open' = IF failures' >= threshold THEN TRUE ELSE is_open
    /\ streak' = streak + 1
    /\ cb_pc' = [cb_pc EXCEPT ![p] = "idle"]
    /\ cb_out' = [cb_out EXCEPT ![p] = "Exception"]
    /\ UNCHANGED <<cb_clock, cb_n>>
    /\ UNCHANGED other_than_cb

(* The task is cancelled while func is awaited: CancelledError is not an   *)
(* Exception, so neither branch of the bookkeeping runs.                    *)
FuncCancelled(p) ==
    /\ cb_pc[p] = "func"
    /\ cb_pc' = [cb_pc EXCEPT ![p] = "idle"]
    /\ cb_out' = [cb_out EXCEPT ![p] = "CancelledError"]
    /\ UNCHANGED <<cb_clock, failures, last_failure_time, is_open, cb_n, streak>>
    /\ UNCHANGED other_than_cb

NextBreaker ==
    \/ \E d \in CbTickSteps : CbTick(d)
    \/ \E p \in CbCallers : BreakerCall(p)
    \/ \E p \in CbCallers : FuncReturns(p)
    \/ \E p \in CbCallers : FuncRaises(p)
    \/ \E p \in CbCallers : FuncCancelled(p)

(* C29: under any interleaving of concurrent call() invocations, a call    *)
(* begun while the breaker is open and less than `timeout` seconds after    *)
(* the last failure raises CacheUnavailableError without invoking func; any *)
(* other call invokes func, and when it finds the breaker open (so the      *)
(* timeout has elapsed) it closes the breaker and resets failures to 0; the *)
(* breaker goes from closed to open only when at least `threshold` failures *)
(* have been counted with no success in between.                            *)
C29_BreakerProtocol ==
    [][/\ \A p \in CbCallers :
             cb_n'[p] # cb_n[p] =>
                 IF is_open /\ cb_clock - last_failure_time < timeout
                 THEN /\ cb_pc'[p] = "idle"
                      /\ cb_out'[p] = "CacheUnavailableError"
                      /\ is_open'
                 ELSE /\ cb_pc'[p] = "func"
                      /\ is_open => (~is_open' /\ failures' = 0)
       /\ (~is_open /\ is_open') => (streak' >= threshold /\ failures' >= threshold)]_vars

(* C29 witness: the breaker had opened and rejected a call, and a call     *)
(* begun after the timeout has closed it and is running func.               *)
C29_Witness ==
    /\ ~is_open
    /\ failures = 0
    /\ last_failure_time # NoFailureTime
    /\ cb_clock - last_failure_time >= timeout
    /\ streak >= threshold
    /\ \E p \in CbCallers : cb_pc[p] = "func"
    /\ \E q \in CbCallers : cb_out[q] = "CacheUnavailableError"

----------------------------------------------------------------------------
(* The specifications.  Each runs one subsystem and keeps the others as     *)
(* constructed.  The get calls of SpecCache run on a connected service;     *)
(* SpecInvalidate starts from the service as constructed.                   *)

QuietCache == InitCache /\ decode_responses = TRUE /\ cache_val = Nil

InitSpecRateLimit ==
    /\ InitRateLimit
    /\ QuietCache
    /\ InitInvalidate
    /\ QuietSequence
    /\ QuietDynamicLimit
    /\ QuietTtl
    /\ QuietForm
    /\ QuietWindow
    /\ QuietBreaker

InitSpecCache ==
    /\ InitCache
    /\ InitRateLimit
    /\ InitKeys /\ redis = TRUE
    /\ QuietSequence
    /\ QuietDynamicLimit
    /\ QuietTtl
    /\ QuietForm
    /\ QuietWindow
    /\ QuietBreaker

InitSpecInvalidate ==
    /\ InitInvalidate
    /\ InitRateLimit
    /\ QuietCache
    /\ QuietSequence
    /\ QuietDynamicLimit
    /\ QuietTtl
    /\ QuietForm
    /\ QuietWindow
    /\ QuietBreaker

InitSpecSequence ==
    /\ InitSequence
    /\ InitRateLimit
    /\ QuietCache
    /\ InitInvalidate
    /\ QuietDynamicLimit
    /\ QuietTtl
    /\ QuietForm
    /\ QuietWindow
    /\ QuietBreaker

InitSpecDynamicLimit ==
    /\ InitDynamicLimit
    /\ InitRateLimit
    /\ QuietCache
    /\ InitInvalidate
    /\ QuietSequence
    /\ QuietTtl
    /\ QuietForm
    /\ QuietWindow
    /\ QuietBreaker

InitSpecTtl ==
    /\ InitTtl
    /\ InitRateLimit
    /\ QuietCache
    /\ InitInvalidate
    /\ QuietSequence
    /\ QuietDynamicLimit
    /\ QuietForm
    /\ QuietWindow
    /\ QuietBreaker

InitSpecForm ==
    /\ InitForm
    /\ InitRateLimit
    /\ QuietCache
    /\ InitInvalidate
    /\ QuietSequence
    /\ QuietDynamicLimit
    /\ QuietTtl
    /\ QuietWindow
    /\ QuietBreaker

InitSpecWindow ==
    /\ InitWindow
    /\ InitRateLimit
    /\ QuietCache
    /\ InitInvalidate
    /\ QuietSequence
    /\ QuietDynamicLimit
    /\ QuietTtl
    /\ QuietForm
    /\ QuietBreaker

InitSpecBreaker ==
    /\ InitBreaker
    /\ InitRateLimit
    /\ QuietCache
    /\ InitInvalidate
    /\ QuietSequence
    /\ QuietDynamicLimit
    /\ QuietTtl
    /\ QuietForm
    /\ QuietWindow

SpecRateLimit == InitSpecRateLimit /\ [][NextRateLimit]_vars

SpecCache == InitSpecCache /\ [][NextCache]_vars

SpecInvalidate == InitSpecInvalidate /\ [][NextInvalidate]_vars

SpecSequence == InitSpecSequence /\ [][NextSequence]_vars

SpecDynamicLimit == InitSpecDynamicLimit /\ [][NextDynamicLimit]_vars

SpecTtl == InitSpecTtl /\ [][NextTtl]_vars

SpecForm == InitSpecForm /\ [][NextForm]_vars

SpecWindow == InitSpecWindow /\ [][NextWindow]_vars

SpecBreaker == InitSpecBreaker /\ [][NextBreaker]_vars

----------------------------------------------------------------------------
(* Properties of the lock and the tiered cache, checked under SpecCache.    *)

Pairs == { pq \in CacheCallers \X CacheCallers : pq[1] # pq[2] }
Done(p) == c_pc[p] = "done"
(* fetch_fn was invoked inside the lock block. *)
LockedFetch(p) ==
    c_fetches[p] > 0 /\ c_path[p] \notin {"unprotected", "unprotected_cancelled"}

(* C4, as claimed: no two callers are inside the lock block at once. *)
C4_MutualExclusion ==
    \A pq \in Pairs : ~(Holding(pq[1]) /\ Holding(pq[2]))

(* C4, amended: two callers are inside the lock block at once only when     *)
(* the lock record of one of them has left the store (its ttl ran out, or   *)
(* another caller's release deleted it) -- while a holder's record is in    *)
(* the store, no other acquisition succeeds.                                *)
C4_ExclusionWhileRecorded ==
    \A pq \in Pairs :
        (Holding(pq[1]) /\ Holding(pq[2])) => (lost[pq[1]] # "no" \/ lost[pq[2]] # "no")

(* Two callers are in the block, the record of the first having expired.    *)
C4_Witness ==
    \E pq \in Pairs :
        /\ Holding(pq[1]) /\ Holding(pq[2])
        /\ lost[pq[1]] # "no" /\ lost[pq[2]] = "no"
        /\ lock.held /\ lock.by = pq[2]

(* C5: the DELETE of a release never removes a record whose stored value    *)
(* is not the releasing caller's own lock_value.                            *)
C5_OwnershipSafeRelease ==
    [][\A p \in CacheCallers :
          (c_pc[p] = "exit_del" /\ c_pc'[p] = "done" /\ lock.held /\ ~lock'.held)
              => lock.value = c_token[p]]_vars

(* C6, first part: a caller whose re-check under the lock finds a value     *)
(* returns that value, decoded, and never invokes fetch_fn.                 *)
RecheckReuses ==
    \A p \in CacheCallers :
        c_path[p] = "recheck" =>
            /\ c_fetches[p] = 0
            /\ c_out[p] = Returns(JsonLoads(cache_val))

TierOrderState ==
    \A p \in CacheCallers :
        /\ c_path[p] = "request_cache" =>
              c_ops[p] = 0 /\ c_fetches[p] = 0 /\ c_token[p] = NoToken
        /\ c_path[p] = "redis" =>
              /\ c_ops[p] = 1 /\ c_fetches[p] = 0 /\ c_token[p] = NoToken
              /\ c_out[p] = Returns(JsonLoads(cache_val))
TierOrderStep ==
    \A p \in CacheCallers :
        /\ (c_pc[p] = "idle" /\ c_pc'[p] = "done") =>
              /\ c_out'[p] = Returns(request_cache[InstanceOf(p)])
              /\ request_cache[InstanceOf(p)] # Missing
              /\ UNCHANGED <<cache_val, lock, request_cache>>
        /\ (c_pc[p] = "l2_resume" /\ c_pc'[p] = "done") =>
              /\ c_out'[p].kind = "return"
              /\ request_cache'[InstanceOf(p)] = c_out'[p].v
              /\ UNCHANGED <<cache_val, lock>>
C7_TierOrder == []TierOrderState /\ [][TierOrderStep]_vars

(* A key present only in the store was served to one caller, and the next   *)
(* caller of that instance was served by the request cache.                 *)
C7_Witness ==
    \E pq \in Pairs :
        /\ InstanceOf(pq[1]) = InstanceOf(pq[2])
        /\ Done(pq[1]) /\ c_path[pq[1]] = "redis"
        /\ Done(pq[2]) /\ c_path[pq[2]] = "request_cache"
        /\ c_out[pq[2]] = c_out[pq[1]]
        /\ \A p \in CacheCallers : c_fetches[p] = 0

(* C9: no failed store round trip makes get raise. *)
C9_StoreErrorNeverRaised ==
    \A p \in CacheCallers : Done(p) => c_out[p] # Raises("StoreError")

----------------------------------------------------------------------------
(* Properties of invalidate, checked under SpecInvalidate.                  *)

StartsWith(prefix, k) ==
    Len(k) >= Len(prefix) /\ SubSeq(k, 1, Len(prefix)) = prefix
Removed(k) == key_cache'[k] = Missing /\ key_store'[k] = Nil
Untouched(k) == key_cache'[k] = key_cache[k] /\ key_store'[k] = key_store[k]

(* C8: invalidate("costs:*") leaves no key that begins with "costs:" in     *)
(* either tier and leaves every other key as it was in both; invalidate of  *)
(* an exact key removes that key from both tiers and no other.              *)
C8_InvalidateFrame ==
    [][/\ Invalidate(CostsStar) =>
             \A k \in Keys : IF StartsWith(CostsPrefix, k) THEN Removed(k) ELSE Untouched(k)
       /\ \A pattern \in Patterns \ {CostsStar} :
             Invalidate(pattern) =>
                 \A k \in Keys : IF k = pattern THEN Removed(k) ELSE Untouched(k)]_vars

----------------------------------------------------------------------------
(* Properties of is_allowed in sequence, checked under SpecSequence.        *)

(* Capacity 10, window 10 (1 token/s): ten allowed calls at clock 0 on the  *)
(* fresh key, nothing else, and then one call at clock 5.                   *)
DrainedThenFive ==
    /\ s_policy = [requests |-> 10, window |-> 10]
    /\ s_log = [at0 |-> 10, later |-> 1, other |-> 0, last |-> 5]

(* C11, as claimed: that call reports remaining = 5. *)
C11_RemainingFive ==
    DrainedThenFive => (s_ret.allowed /\ s_ret.remaining = 5)

(* C11, amended: five tokens have been refilled, the call is allowed and    *)
(* takes one of them, and it reports the four that are left, which is also  *)
(* what the store holds.                                                    *)
C11_RemainingFour ==
    DrainedThenFive =>
        /\ s_ret.allowed /\ s_ret.remaining = 4
        /\ s_value = CjsonEncode([present |-> TRUE, tokens |-> 4 * TokenDen,
                                  last_refill |-> 5])

C11_Witness ==
    /\ DrainedThenFive
    /\ s_count = 11 /\ s_clock = 5 /\ ~s_error /\ s_ret.limit = 10

(* C16: a call that finds an undecodable value under the key stores a       *)
(* fresh bucket less the token it takes (tokens = capacity - 1,             *)
(* last_refill = now) and is allowed with remaining = capacity - 1.         *)
C16_ReinitOnMalformed ==
    [][(s_count' = s_count + 1 /\ ~Decodable(s_value) /\ s_value # NilValue) =>
          /\ s_value' = CjsonEncode([present |-> TRUE,
                                     tokens |-> (s_policy.requests - 1) * TokenDen,
                                     last_refill |-> s_clock])
          /\ s_ret'.allowed /\ s_ret'.remaining = s_policy.requests - 1]_vars

----------------------------------------------------------------------------
(* Properties of concurrent is_allowed calls, checked under SpecRateLimit.  *)

(* C17: bucket state is kept per client and policy scope, so the state a    *)
(* script run reads and overwrites is absent or was written by a run under  *)
(* the same policy: a call under one policy leaves the tokens and           *)
(* last_refill kept for another policy as they were.  (The policies of the  *)
(* model differ in capacity, so the capacity names the scope.)              *)
C17_ScopedBuckets ==
    [][\A p \in LimiterCallers :
          (rl_pc[p] = "await_store" /\ rl_pc'[p] = "returned" /\ rl_store'[p] = "ok") =>
              LET k == RateKey(rl_args[p].client_id)
              IN bucket[k].present => written_cap[k] = rl_args[p].max_requests]_vars

----------------------------------------------------------------------------
(* Properties of get_dynamic_limit, checked under SpecDynamicLimit.         *)

Called == dl_args # NoDlCall

(* C18: the base policy of a call is the override of its exact (method,     *)
(* path) pair when the override table has one, whatever the tier; else the  *)
(* tier's entry when the tier names one; else the default 1000 per 60 s.    *)
(* It depends on nothing but the tier, the method and the path.             *)
C18_BasePolicy ==
    Called =>
        LET k == dl_args.endpoint_key
            t == dl_args.client_tier
        IN /\ k \in DOMAIN endpoint_limits => dl_base = endpoint_limits[k]
           /\ (k \notin DOMAIN endpoint_limits /\ t \in ClientTier) =>
                  dl_base = TIER_LIMITS[t]
           /\ (k \notin DOMAIN endpoint_limits /\ t \notin ClientTier) =>
                  dl_base = [requests |-> 1000, window |-> 60]

(* C18: an admin call on an overridden pair got the override, under a       *)
(* status other than healthy.                                               *)
C18_Witness ==
    /\ endpoint_limits = ENDPOINT_LIMITS
    /\ dl_args = [client_tier |-> "admin", endpoint_key |-> PostProjects]
    /\ dl_base = [requests |-> 10, window |-> 60]
    /\ dl_status = "critical"

(* C19: the call returns a policy whose capacity is the whole part of the   *)
(* base capacity times 0.2 (critical), 0.5 (degraded) or 1.0 (healthy) and  *)
(* whose window is the base window; the degraded capacity is below the      *)
(* healthy one.                                                             *)
C19_ScaledPolicy ==
    Called =>
        /\ dl_ret.requests = AdjustedRequests(dl_base.requests, dl_status)
        /\ AdjustedRequests(dl_base.requests, "degraded")
               < AdjustedRequests(dl_base.requests, "healthy")
        /\ dl_ret.kind = "dict"
        /\ dl_ret.window = dl_base.window

(* C20: a call whose base capacity is at least 1 returns a capacity of at   *)
(* least 1.                                                                 *)
C20_AtLeastOne ==
    (Called /\ dl_base.requests >= 1) => dl_ret.requests >= 1

----------------------------------------------------------------------------
(* Properties of get after a failed lock acquisition, checked under         *)
(* SpecCache.                                                               *)

TimeoutPathState ==
    \A p \in CacheCallers :
        /\ c_path[p] # "fetch_timeout" => c_out[p] # Raises("TimeoutError")
        /\ c_pc[p] \in {"wait_read", "fetch_direct"} =>
               /\ c_attempt[p] < wait_reads
               /\ c_path[p] # "fetch_timeout" => c_fetches[p] = 0
        /\ c_path[p] = "wait_read" =>
               /\ c_fetches[p] = 0
               /\ c_out[p] \in { Returns(JsonLoads(JsonDumps(v))) : v \in FetchValues }
        /\ c_path[p] = "unprotected" =>
               /\ c_fetches[p] = 1
               /\ c_out[p] \in { Returns(v) : v \in FetchValues }

TimeoutPathStep ==
    \A p \in CacheCallers :
        (c_pc[p] = "wait_read" /\ c_pc'[p] # "wait_read" /\ faults' = faults) =>
            IF Truthy(cache_val)
            THEN /\ c_pc'[p] = "done"
                 /\ c_out'[p] = Returns(JsonLoads(cache_val))
                 /\ c_fetches'[p] = c_fetches[p]
            ELSE /\ c_pc'[p] = "fetch_direct"
                 /\ c_attempt[p] = wait_reads - 1

(* C12: after a failed acquisition get reads the key again and returns a    *)
(* value it finds without calling fetch_fn; it calls fetch_fn, with no      *)
(* lock, only after the reads found nothing, and returns its result.  It    *)
(* makes a bounded number of reads and never raises the TimeoutError.       *)
C12_TimeoutFallback == []TimeoutPathState /\ [][TimeoutPathStep]_vars

(* C12: a caller that could not get the lock returned the value another     *)
(* caller had computed and stored, without computing it.                    *)
C12_Witness ==
    \E p, q \in CacheCallers :
        /\ c_pc[p] = "done" /\ c_path[p] = "wait_read"
        /\ c_out[p] = Returns("[1, 2]") /\ c_fetches[p] = 0
        /\ c_path[q] = "computed" /\ c_fetches[q] = 1

----------------------------------------------------------------------------
(* Properties of CacheLock, checked under SpecCache.                        *)

(* The step is an attempt of p's __aenter__ that the store answered. *)
Attempt(p) ==
    /\ c_pc[p] = "acquire"
    /\ faults' = faults
    /\ c_pc'[p] # "acquire" \/ c_attempt'[p] # c_attempt[p]

BackoffState ==
    \A p \in CacheCallers :
        c_pc[p] = "acquire" =>
            /\ c_attempt[p] \in 0..9
            /\ ~(lock.held /\ lock.by = p)
            /\ c_attempt[p] > 0 => c_sleep[p] = 2^(c_attempt[p] - 1)

BackoffStep ==
    \A p \in CacheCallers :
        Attempt(p) =>
            IF ~lock.held
            THEN /\ c_pc'[p] = "recheck"
                 /\ lock'.held /\ lock'.by = p /\ lock'.value = c_token[p]
                 /\ c_sleep'[p] = 0
            ELSE /\ lock' = lock
                 /\ c_sleep'[p] = 2^c_attempt[p]
                 /\ IF c_attempt[p] < 9
                    THEN c_pc'[p] = "acquire" /\ c_attempt'[p] = c_attempt[p] + 1
                    ELSE c_pc'[p] = "wait_read" /\ c_fetches'[p] = 0

(* C13: __aenter__ makes at most 10 SET NX attempts, numbered 0 to 9; a     *)
(* successful one enters the block at once with no sleep; failed attempt k  *)
(* is followed by a sleep of 2^k tenths of a second and then by attempt     *)
(* k + 1, or after attempt 9 by TimeoutError; the caller has no record in   *)
(* the store while it is between attempts.                                  *)
C13_BoundedBackoff == []BackoffState /\ [][BackoffStep]_vars

(* C13: a caller failed all ten attempts, slept 51.2 s after the last and   *)
(* is in the handler of TimeoutError, the lock still held by another.       *)
C13_Witness ==
    \E pq \in Pairs :
        /\ c_pc[pq[1]] = "wait_read" /\ c_sleep[pq[1]] = 512
        /\ Holding(pq[2]) /\ lock.held /\ lock.by = pq[2]

BlockBody == {"recheck", "recheck_resume", "fetching", "setex"}

(* C14: every step that takes a caller out of the body of the lock block    *)
(* -- a return, an exception of fetch_fn or of a store call, a              *)
(* cancellation -- takes it into __aexit__; the body is entered only by a   *)
(* successful acquisition and __aexit__ only from the body.                 *)
C14_ReleaseOnEveryExit ==
    [][\A p \in CacheCallers :
          /\ (c_pc[p] \in BlockBody /\ c_pc'[p] \notin BlockBody) =>
                 c_pc'[p] = "exit_get"
          /\ (c_pc[p] # "exit_get" /\ c_pc'[p] = "exit_get") =>
                 c_pc[p] \in BlockBody
          /\ (c_pc[p] \notin BlockBody /\ c_pc'[p] \in BlockBody) =>
                 /\ c_pc[p] = "acquire" /\ ~lock.held
                 /\ lock'.held /\ lock'.by = p]_vars

(* C14: a caller cancelled in the block is in __aexit__ with the            *)
(* CancelledError pending, its record still in the store.                   *)
C14_Witness ==
    \E p \in CacheCallers :
        /\ c_pc[p] = "exit_get" /\ c_out[p] = Raises("CancelledError")
        /\ lock.held /\ lock.by = p

(* C15: a lock record in the store always has the expiry it was written    *)
(* with, so the store can drop it whatever its holder does; and once the    *)
(* record of a holder that is still in the block has gone, the SET NX of    *)
(* another caller succeeds.                                                 *)
C15_RecordHasExpiry ==
    /\ lock.held => (lock.ttl = 10 /\ ENABLED Expire)
    /\ \A p \in CacheCallers :
          (~lock.held /\ c_pc[p] = "acquire") => SetNX(lock, c_token[p], p).ok

(* C15: a holder stopped in the block before storing anything; its record   *)
(* expired and another caller holds the lock.                               *)
C15_Witness ==
    \E pq \in Pairs :
        /\ c_pc[pq[1]] = "fetching" /\ lost[pq[1]] = "early"
        /\ lock.held /\ lock.by = pq[2] /\ lock.ttl = 10
        /\ Holding(pq[2])

----------------------------------------------------------------------------
(* Properties of the health check, checked under SpecDynamicLimit.          *)

(* C21: two samplings of the load signal are never less than the interval   *)
(* of 10 s apart, a sampling that raised included, and a call made less     *)
(* than 10 s after a sampling answers with the cached status and does not   *)
(* sample.                                                                  *)
C21_SamplingInterval ==
    [][/\ (dl_sample_at' # dl_sample_at /\ dl_sample_at # 0) =>
              dl_sample_at' - dl_sample_at >= 10
       /\ (dl_args' # dl_args /\ dl_sample_at # 0 /\ dl_clock - dl_sample_at < 10) =>
              (~dl_sampled' /\ dl_status' = health_status)]_vars

(* C22: a call whose sampling raised scaled by degraded, whatever status    *)
(* was cached; a call whose sampling gave a depth scaled by critical above  *)
(* 1000, by degraded above 500, by healthy otherwise.                       *)
C22_FailTowardDegraded ==
    (Called /\ dl_sampled) =>
        IF dl_sample = SampleRaises
        THEN dl_status = "degraded"
        ELSE dl_status = (IF dl_sample > 1000 THEN "critical"
                          ELSE IF dl_sample > 500 THEN "degraded"
                          ELSE "healthy")

(* C22: the status cached by an earlier sampling is healthy, and the call   *)
(* whose sampling raised answered degraded.                                 *)
C22_Witness ==
    /\ Called /\ dl_sampled /\ dl_sample = SampleRaises
    /\ last_health_check > 0 /\ health_status = "healthy"
    /\ dl_status = "degraded"

----------------------------------------------------------------------------
(* Properties of the lock value, checked under SpecCache.                   *)

(* C23: the locks two callers built for the key have different values, so   *)
(* that the value stored under lock:<key> names one acquisition.            *)
C23_DistinctTokens ==
    \A pq \in Pairs :
        (c_token[pq[1]] # NoToken /\ c_token[pq[2]] # NoToken) =>
            c_token[pq[1]] # c_token[pq[2]]

----------------------------------------------------------------------------
(* Properties of the TTL selection, checked under SpecTtl.                  *)

(* The TTL of the table entry whose key is a prefix of k, and 300 when no   *)
(* entry is.                                                                *)
PrefixTtl(k) ==
    LET hits == { i \in 1..Len(CACHE_TTL_CONFIG) :
                     StartsWith(CACHE_TTL_CONFIG[i].pattern, k) }
    IN IF hits = {} THEN 300 ELSE CACHE_TTL_CONFIG[CHOOSE i \in hits : TRUE].ttl

(* C24: get and set store a value with the same TTL: the ttl argument when  *)
(* one is given, else the TTL of the table entry whose key is a prefix of   *)
(* the cache key, else 300.                                                 *)
C24_SameTtl ==
    ttl_last.op # "none" =>
        ttl_store[ttl_last.key] =
            IF ttl_last.ttl # NoneTtl /\ ttl_last.ttl # 0 THEN ttl_last.ttl
            ELSE PrefixTtl(ttl_last.key)

----------------------------------------------------------------------------
(* Properties of the calling forms of is_allowed, checked under SpecForm.   *)

FormCalled == f_call.status # "none"
(* The script's decision in a reply: the scalar, or the first item. *)
Decides(result, n) ==
    \/ result = IntReply(n)
    \/ result.kind = "list" /\ Len(result.items) >= 1 /\ result.items[1] = IntItem(n)

(* C25: a call with a tier name returns a bare boolean on every return      *)
(* path, True when the script's result is 1 and False when it is 0; a call  *)
(* with numeric limits returns a (boolean, metadata) pair on every return   *)
(* path.                                                                    *)
C25_ReturnShape ==
    (FormCalled /\ f_ret.shape # "raise") =>
        IF TierForm(f_call.max_or_tier)
        THEN /\ f_ret.shape = "bool"
             /\ Decides(f_call.result, 1) => f_ret.allowed
             /\ Decides(f_call.result, 0) => ~f_ret.allowed
        ELSE f_ret.shape = "pair"

----------------------------------------------------------------------------
(* Properties of the release, checked under SpecCache.                      *)

(* C26: with the decoding client connect() creates and no failed or         *)
(* cancelled step, a caller that has left the lock block has not left its   *)
(* own lock record in the store.                                            *)
C26_ReleaseDeletes ==
    \A p \in CacheCallers :
        (decode_responses /\ faults = 0 /\ Done(p)) => ~(lock.held /\ lock.by = p)

(* C27: a get call that ran fetch_fn and returns its value has the value    *)
(* in the request cache of its instance and in the store when it returns,   *)
(* whether it computed under the lock or after a lock timeout.              *)
C27_ComputedValueInBothTiers ==
    [][\A p \in CacheCallers :
          (c_pc[p] # "done" /\ c_pc'[p] = "done"
              /\ c_out'[p].kind = "return" /\ c_fetches'[p] > 0) =>
                 /\ request_cache'[InstanceOf(p)] # Missing
                 /\ cache_val' = JsonDumps(c_out'[p].v)]_vars

----------------------------------------------------------------------------
(* Properties of check_limit, checked under SpecWindow.                     *)

RECURSIVE SumGranted(_)
SumGranted(ts) ==
    IF ts = {} THEN 0
    ELSE LET t == CHOOSE t \in ts : TRUE
         IN granted[t] + SumGranted(ts \ {t})

(* C28: the calls that returned True with their now inside one interval of  *)
(* the length of the window are never more than the limit.                  *)
C28_WindowNeverExceeded ==
    \A s \in WinReadings :
        SumGranted({ t \in WinReadings : s - w_window < t /\ t <= s }) <= w_limit

----------------------------------------------------------------------------
(* Invocations of fetch_fn in one get call, checked under SpecCache.        *)

(* C30: one get call invokes fetch_fn at most once, whatever fetch_fn       *)
(* does.                                                                    *)
C30_FetchAtMostOnce ==
    \A p \in CacheCallers : c_fetches[p] <= 1

====
